---- MODULE Spec2Model ----
(***************************************************************************)
(* State-machine model of the trading controller core of                   *)
(* P0W/crypto-strategies:                                                  *)
(*   - RiskManager            (src/src/risk.py)                            *)
(*   - CoinDCXStrategy        (src/py/src/strategies/volatility_regime)    *)
(*   - StateManager/LiveTrader (src/src/state_manager.py, live_trader.py)  *)
(*                                                                         *)
(* Python floats are modelled as exact rationals <<numerator, denominator>>*)
(* in lowest terms with a positive denominator; the value None is the pair *)
(* <<0, 0>>.  Rounding of IEEE doubles is therefore abstracted away.       *)
(***************************************************************************)
EXTENDS Integers, Sequences, FiniteSets, TLC

VARIABLES
    rm,      \* the RiskManager object: limits and PortfolioState
    call,    \* the last RiskManager call that returned a value (its arguments)
    ret,     \* the value returned by that call
    st,      \* the CoinDCXStrategy object
    mkt,     \* backtrader as the strategy sees it: broker and data feeds
    out,     \* what the last call of CoinDCXStrategy.next reported per data feed
    store,   \* the StateManager's durable tables
    lt,      \* the LiveTrader process
    venue    \* the exchange: the orders it has accepted, as <<side, symbol>>

riskVars == <<rm, call, ret>>
strategyVars == <<st, mkt, out>>
liveVars == <<store, lt, venue>>
vars == <<rm, call, ret, st, mkt, out, store, lt, venue>>

----------------------------------------------------------------------------
(* Exact rational arithmetic standing for Python float arithmetic.          *)

Abs(x) == IF x < 0 THEN -x ELSE x

RECURSIVE GCD(_, _)
GCD(a, b) == IF b = 0 THEN a ELSE GCD(b, a % b)

\* the rational n/d in lowest terms, d > 0
Rat(n, d) ==
    LET g == GCD(Abs(n), Abs(d))
        s == IF d < 0 THEN -1 ELSE 1
    IN  IF n = 0 THEN <<0, 1>> ELSE <<s * (n \div g), s * (d \div g)>>

R(n) == <<n, 1>>
Zero == <<0, 1>>
One == <<1, 1>>
NoneR == <<0, 0>>
IsNone(x) == x[2] = 0

RAdd(a, b) == Rat(a[1] * b[2] + b[1] * a[2], a[2] * b[2])
RSub(a, b) == Rat(a[1] * b[2] - b[1] * a[2], a[2] * b[2])
\* cross-cancel before multiplying so that intermediate products stay small
RMul(a, b) ==
    LET g1 == GCD(Abs(a[1]), b[2])
        g2 == GCD(Abs(b[1]), a[2])
        h1 == IF g1 = 0 THEN 1 ELSE g1
        h2 == IF g2 = 0 THEN 1 ELSE g2
    IN  Rat((a[1] \div h1) * (b[1] \div h2), (a[2] \div h2) * (b[2] \div h1))
\* b # 0
RDiv(a, b) == RMul(a, IF b[1] < 0 THEN <<-b[2], -b[1]>> ELSE <<b[2], b[1]>>)
RLt(a, b) == a[1] * b[2] < b[1] * a[2]
RLe(a, b) == a[1] * b[2] <= b[1] * a[2]
RGe(a, b) == RLe(b, a)
RGt(a, b) == RLt(b, a)
RMin(a, b) == IF RLe(a, b) THEN a ELSE b
RMax(a, b) == IF RGe(a, b) THEN a ELSE b
RAbs(a) == <<Abs(a[1]), a[2]>>
RNeg(a) == <<-a[1], a[2]>>

----------------------------------------------------------------------------
(* RiskManager (src/src/risk.py)                                            *)

ALLOW == "allow"
REDUCE == "reduce"
BLOCK == "block"

\* RiskLimits with the defaults of the dataclass
DefaultLimits ==
    [ max_risk_per_trade         |-> <<1, 50>>,
      min_risk_per_trade         |-> <<1, 200>>,
      max_position_pct           |-> <<2, 5>>,
      max_positions              |-> 2,
      max_portfolio_heat         |-> <<1, 10>>,
      drawdown_warning           |-> <<1, 10>>,
      drawdown_critical          |-> <<3, 20>>,
      drawdown_halt              |-> <<1, 5>>,
      max_daily_loss_pct         |-> <<1, 20>>,
      max_daily_trades           |-> 5,
      consecutive_loss_threshold |-> 3,
      consecutive_loss_reduction |-> <<1, 4>>,
      max_consecutive_losses     |-> 5,
      consecutive_wins_for_reset |-> 2 ]

\* the configuration of the sizing example: max_position_pct = 0.30
ExampleLimits == [DefaultLimits EXCEPT !.max_position_pct = <<3, 10>>]

\* a tighter configuration: 5% heat ceiling, 2 trades per day, halt after 3 losses
TightLimits ==
    [DefaultLimits EXCEPT !.max_portfolio_heat = <<1, 20>>,
                          !.max_daily_trades = 2,
                          !.consecutive_loss_threshold = 2,
                          !.max_consecutive_losses = 3]

LimitsConfigs == {DefaultLimits, ExampleLimits, TightLimits}

\* DailyStats.daily_return
daily_return(d) ==
    IF d.starting_equity = Zero THEN Zero
    ELSE RDiv(RSub(d.current_equity, d.starting_equity), d.starting_equity)

\* PortfolioState.drawdown
drawdown(s) ==
    IF s.peak_equity = Zero THEN Zero
    ELSE RDiv(RSub(s.peak_equity, s.equity), s.peak_equity)

RECURSIVE SumRisk(_, _)
SumRisk(positions, syms) ==
    IF syms = {} THEN Zero
    ELSE LET x == CHOOSE y \in syms : TRUE
         IN  RAdd(positions[x].risk_amount, SumRisk(positions, syms \ {x}))

\* PortfolioState.total_risk
total_risk(s) == SumRisk(s.positions, DOMAIN s.positions)

\* PortfolioState.portfolio_heat
portfolio_heat(s) ==
    IF s.equity = Zero THEN Zero ELSE RDiv(total_risk(s), s.equity)

\* PortfolioState.position_count
position_count(s) == Cardinality(DOMAIN s.positions)

\* RiskManager.__init__
RiskManagerInit(initial_equity, limits) ==
    [ limits             |-> limits,
      equity             |-> initial_equity,
      peak_equity        |-> initial_equity,
      positions          |-> <<>>,
      daily_stats        |-> [ starting_equity |-> initial_equity,
                               current_equity  |-> initial_equity,
                               trades_count    |-> 0,
                               winning_trades  |-> 0,
                               losing_trades   |-> 0,
                               gross_pnl       |-> Zero,
                               fees_paid       |-> Zero ],
      consecutive_losses |-> 0,
      consecutive_wins   |-> 0 ]

\* RiskManager.update_equity
update_equity(s, new_equity) ==
    [s EXCEPT !.equity = new_equity,
              !.peak_equity = RMax(s.peak_equity, new_equity),
              !.daily_stats.current_equity = new_equity]

\* can_trade with the halt test written as a strict comparison
can_trade_strict_halt(s) ==
    IF RGt(drawdown(s), s.limits.drawdown_halt) THEN BLOCK
    ELSE IF s.consecutive_losses >= s.limits.max_consecutive_losses THEN BLOCK
    ELSE IF s.daily_stats.trades_count >= s.limits.max_daily_trades THEN BLOCK
    ELSE IF /\ RGe(RAbs(daily_return(s.daily_stats)), s.limits.max_daily_loss_pct)
            /\ RLt(daily_return(s.daily_stats), Zero) THEN BLOCK
    ELSE IF position_count(s) >= s.limits.max_positions THEN BLOCK
    ELSE IF RGe(portfolio_heat(s), s.limits.max_portfolio_heat) THEN BLOCK
    ELSE IF RGe(drawdown(s), s.limits.drawdown_warning) THEN REDUCE
    ELSE IF s.consecutive_losses >= s.limits.consecutive_loss_threshold THEN REDUCE
    ELSE ALLOW

\* can_trade with the reduced-sizing tests placed before the position and heat limits
can_trade_reduce_first(s) ==
    IF RGe(drawdown(s), s.limits.drawdown_halt) THEN BLOCK
    ELSE IF s.consecutive_losses >= s.limits.max_consecutive_losses THEN BLOCK
    ELSE IF s.daily_stats.trades_count >= s.limits.max_daily_trades THEN BLOCK
    ELSE IF /\ RGe(RAbs(daily_return(s.daily_stats)), s.limits.max_daily_loss_pct)
            /\ RLt(daily_return(s.daily_stats), Zero) THEN BLOCK
    ELSE IF RGe(drawdown(s), s.limits.drawdown_warning) THEN REDUCE
    ELSE IF s.consecutive_losses >= s.limits.consecutive_loss_threshold THEN REDUCE
    ELSE IF position_count(s) >= s.limits.max_positions THEN BLOCK
    ELSE IF RGe(portfolio_heat(s), s.limits.max_portfolio_heat) THEN BLOCK
    ELSE ALLOW

\* RiskManager.can_trade
can_trade(s) ==
    IF RGe(drawdown(s), s.limits.drawdown_halt) THEN BLOCK
    ELSE IF s.consecutive_losses >= s.limits.max_consecutive_losses THEN BLOCK
    ELSE IF s.daily_stats.trades_count >= s.limits.max_daily_trades THEN BLOCK
    ELSE IF /\ RGe(RAbs(daily_return(s.daily_stats)), s.limits.max_daily_loss_pct)
            /\ RLt(daily_return(s.daily_stats), Zero) THEN BLOCK
    ELSE IF position_count(s) >= s.limits.max_positions THEN BLOCK
    ELSE IF RGe(portfolio_heat(s), s.limits.max_portfolio_heat) THEN BLOCK
    ELSE IF RGe(drawdown(s), s.limits.drawdown_warning) THEN REDUCE
    ELSE IF s.consecutive_losses >= s.limits.consecutive_loss_threshold THEN REDUCE
    ELSE ALLOW

\* get_size_multiplier without the floor of 0.25
get_size_multiplier_no_floor(s) ==
    LET m1 == IF RGe(drawdown(s), s.limits.drawdown_critical) THEN <<1, 4>>
              ELSE IF RGe(drawdown(s), s.limits.drawdown_warning) THEN <<1, 2>>
              ELSE One
    IN  IF s.consecutive_losses >= s.limits.consecutive_loss_threshold
        THEN RMul(m1, RSub(One, s.limits.consecutive_loss_reduction))
        ELSE m1

\* get_size_multiplier with the critical tier entered only above the threshold
get_size_multiplier_strict_critical(s) ==
    LET m1 == IF RGt(drawdown(s), s.limits.drawdown_critical) THEN <<1, 4>>
              ELSE IF RGe(drawdown(s), s.limits.drawdown_warning) THEN <<1, 2>>
              ELSE One
        m2 == IF s.consecutive_losses >= s.limits.consecutive_loss_threshold
              THEN RMul(m1, RSub(One, s.limits.consecutive_loss_reduction))
              ELSE m1
    IN  RMax(<<1, 4>>, m2)

\* RiskManager.get_size_multiplier
get_size_multiplier(s) ==
    LET m1 == IF RGe(drawdown(s), s.limits.drawdown_critical) THEN <<1, 4>>
              ELSE IF RGe(drawdown(s), s.limits.drawdown_warning) THEN <<1, 2>>
              ELSE One
        m2 == IF s.consecutive_losses >= s.limits.consecutive_loss_threshold
              THEN RMul(m1, RSub(One, s.limits.consecutive_loss_reduction))
              ELSE m1
    IN  RMax(<<1, 4>>, m2)

\* calculate_position_size, "Base risk": base_risk_pct or max_risk_per_trade
\* (None and 0.0 are both falsy), then min with the maximum, max with the minimum
risk_pct_of(s, base_risk_pct) ==
    LET r0 == IF IsNone(base_risk_pct) \/ base_risk_pct = Zero
              THEN s.limits.max_risk_per_trade ELSE base_risk_pct
        r1 == RMin(r0, s.limits.max_risk_per_trade)
    IN  RMax(r1, s.limits.min_risk_per_trade)

\* calculate_position_size, risk amount: equity * risk_pct * clamped regime
\* score * size multiplier
risk_amount_of(s, risk_pct, regime_score) ==
    RMul(RMul(RMul(s.equity, risk_pct),
              RMin(RMax(regime_score, <<1, 2>>), <<3, 2>>)),
         get_size_multiplier(s))

\* the cap left out
cap_position_value_uncapped(s, position_value) == position_value

\* calculate_position_size, "Cap at max position percentage"
cap_position_value(s, position_value) ==
    RMin(position_value, RMul(s.equity, s.limits.max_position_pct))

\* calculate_position_size, "Check remaining portfolio heat"
heat_limited_value(s, risk_pct, price, stop_distance, position_value) ==
    LET remaining_heat == RSub(s.limits.max_portfolio_heat, portfolio_heat(s))
    IN  IF RLt(remaining_heat, risk_pct)
        THEN LET risk_amount == RMul(remaining_heat, s.equity)
                 shares == RDiv(risk_amount, stop_distance)
             IN  RMin(position_value, RMul(shares, price))
        ELSE position_value

\* calculate_position_size after its two early returns
sized_value(s, price, stop_distance, regime_score, base_risk_pct) ==
    LET risk_pct == risk_pct_of(s, base_risk_pct)
        risk_amount == risk_amount_of(s, risk_pct, regime_score)
        shares == RDiv(risk_amount, stop_distance)
        position_value == cap_position_value(s, RMul(shares, price))
    IN  heat_limited_value(s, risk_pct, price, stop_distance, position_value)

\* calculate_position_size without the can_trade() test
calculate_position_size_unchecked(s, price, stop_distance, regime_score, base_risk_pct) ==
    IF RLe(stop_distance, Zero) \/ RLe(price, Zero) THEN Zero
    ELSE sized_value(s, price, stop_distance, regime_score, base_risk_pct)

\* RiskManager.calculate_position_size
calculate_position_size(s, price, stop_distance, regime_score, base_risk_pct) ==
    IF RLe(stop_distance, Zero) \/ RLe(price, Zero) THEN Zero
    ELSE IF can_trade(s) = BLOCK THEN Zero
    ELSE sized_value(s, price, stop_distance, regime_score, base_risk_pct)

\* RiskManager.add_position: positions[position.symbol] = position
add_position(s, position) ==
    [s EXCEPT !.positions =
        [x \in (DOMAIN s.positions) \cup {position.symbol} |->
            IF x = position.symbol THEN position ELSE s.positions[x]]]

\* RiskManager.remove_position (the state after positions.pop(symbol, None))
remove_position(s, symbol) ==
    [s EXCEPT !.positions = [x \in (DOMAIN s.positions) \ {symbol} |-> s.positions[x]]]

\* record_trade_result: a loss leaves the win streak standing
record_trade_result_keeps_wins(s, symbol, gross_pnl, fees, is_win) ==
    LET d == s.daily_stats
    IN  [s EXCEPT
          !.consecutive_wins   = IF is_win THEN s.consecutive_wins + 1
                                 ELSE s.consecutive_wins,
          !.consecutive_losses = IF is_win THEN 0 ELSE s.consecutive_losses + 1,
          !.daily_stats =
              [d EXCEPT !.trades_count   = d.trades_count + 1,
                        !.gross_pnl      = RAdd(d.gross_pnl, gross_pnl),
                        !.fees_paid      = RAdd(d.fees_paid, fees),
                        !.winning_trades = IF is_win THEN d.winning_trades + 1
                                           ELSE d.winning_trades,
                        !.losing_trades  = IF is_win THEN d.losing_trades
                                           ELSE d.losing_trades + 1]]


\* RiskManager.record_trade_result.  The private log _trade_history, which
\* nothing reads, is not part of the state.
record_trade_result(s, symbol, gross_pnl, fees, is_win) ==
    LET d == s.daily_stats
    IN  [s EXCEPT
          !.consecutive_wins   = IF is_win THEN s.consecutive_wins + 1 ELSE 0,
          !.consecutive_losses = IF is_win THEN 0 ELSE s.consecutive_losses + 1,
          !.daily_stats =
              [d EXCEPT !.trades_count   = d.trades_count + 1,
                        !.gross_pnl      = RAdd(d.gross_pnl, gross_pnl),
                        !.fees_paid      = RAdd(d.fees_paid, fees),
                        !.winning_trades = IF is_win THEN d.winning_trades + 1
                                           ELSE d.winning_trades,
                        !.losing_trades  = IF is_win THEN d.losing_trades
                                           ELSE d.losing_trades + 1]]

\* RiskManager.new_day
new_day(s, new_equity) ==
    [s EXCEPT !.daily_stats =
        [ starting_equity |-> new_equity,
          current_equity  |-> new_equity,
          trades_count    |-> 0,
          winning_trades  |-> 0,
          losing_trades   |-> 0,
          gross_pnl       |-> Zero,
          fees_paid       |-> Zero ]]

----------------------------------------------------------------------------
(* CoinDCXStrategy and VolatilityRegimeIndicator                            *)
(* (src/py/src/strategies/volatility_regime/strategy.py).                   *)
(*                                                                          *)
(* st is the strategy object, mkt the part of backtrader it reads: the      *)
(* broker (positions, orders, portfolio value) and, for each data feed, the *)
(* current bar with its indicator values.  The counters trade_count,        *)
(* winning_trades, losing_trades and the dict entry_bars are written but    *)
(* read by no decision of the strategy and are left out.                    *)

\* Python dicts as functions on the set of their keys
DictSet(d, k, v) == [x \in (DOMAIN d) \cup {k} |-> IF x = k THEN v ELSE d[x]]
DictDel(d, k) == [x \in (DOMAIN d) \ {k} |-> d[x]]
DictGet(d, k, default) == IF k \in DOMAIN d THEN d[k] ELSE default

\* the data feeds, in the order of self.datas
Datas == <<"BTCINR", "ETHINR">>
DataNames == {Datas[i] : i \in 1..Len(Datas)}

\* strategy parameters of the default configuration
DefaultParams ==
    [ risk_per_trade               |-> <<3, 20>>,
      max_positions                |-> 5,
      max_portfolio_heat           |-> <<3, 10>>,
      max_position_pct             |-> <<1, 5>>,
      max_drawdown                 |-> <<1, 5>>,
      drawdown_warning             |-> <<1, 10>>,
      drawdown_critical            |-> <<3, 20>>,
      drawdown_warning_multiplier  |-> <<1, 2>>,
      drawdown_critical_multiplier |-> <<1, 4>>,
      consecutive_loss_limit       |-> 3,
      consecutive_loss_multiplier  |-> <<3, 4>>,
      compression_threshold        |-> <<3, 5>>,
      expansion_threshold          |-> <<3, 2>>,
      extreme_threshold            |-> <<5, 2>>,
      adx_threshold                |-> R(30),
      breakout_atr_multiple        |-> <<3, 2>>,
      stop_atr_multiple            |-> <<5, 2>>,
      target_atr_multiple          |-> R(5),
      trailing_activation          |-> <<1, 2>>,
      trailing_atr_multiple        |-> <<3, 2>> ]

\* CoinDCXStrategy.__init__
StrategyInit(params, broker_value) ==
    [ p                  |-> params,
      orders             |-> [d \in DataNames |-> "none"],
      pending_close      |-> [d \in DataNames |-> FALSE],
      entry_prices       |-> <<>>,
      stop_prices        |-> <<>>,
      target_prices      |-> <<>>,
      trailing_active    |-> <<>>,
      consecutive_losses |-> 0,
      consecutive_wins   |-> 0,
      peak_value         |-> broker_value ]

\* Expansion is tested before Extreme
VolatilityRegimeIndicator_expansion_first(p, atr, atr_mean) ==
    IF atr_mean = Zero THEN [regime |-> 1, regime_score |-> One]
    ELSE LET atr_ratio == RDiv(atr, atr_mean)
         IN  IF RLt(atr_ratio, p.compression_threshold)
                 THEN [regime |-> 0, regime_score |-> <<3, 2>>]
             ELSE IF RGt(atr_ratio, p.expansion_threshold)
                 THEN [regime |-> 2, regime_score |-> <<4, 5>>]
             ELSE IF RGt(atr_ratio, p.extreme_threshold)
                 THEN [regime |-> 3, regime_score |-> <<1, 2>>]
             ELSE [regime |-> 1, regime_score |-> One]

\* VolatilityRegimeIndicator.next once the lookback is filled: atr_mean is
\* the mean of the last `lookback` ATR values
VolatilityRegimeIndicator(p, atr, atr_mean) ==
    IF atr_mean = Zero THEN [regime |-> 1, regime_score |-> One]
    ELSE LET atr_ratio == RDiv(atr, atr_mean)
         IN  IF RLt(atr_ratio, p.compression_threshold)
                 THEN [regime |-> 0, regime_score |-> <<3, 2>>]
             ELSE IF RGt(atr_ratio, p.extreme_threshold)
                 THEN [regime |-> 3, regime_score |-> <<1, 2>>]
             ELSE IF RGt(atr_ratio, p.expansion_threshold)
                 THEN [regime |-> 2, regime_score |-> <<4, 5>>]
             ELSE [regime |-> 1, regime_score |-> One]

\* sum(atr_values) for atr_values = [self.atr[-i] for i in range(n)], the
\* last n values of the ATR line atrs
RECURSIVE SumLastAtr(_, _)
SumLastAtr(atrs, n) ==
    IF n = 0 THEN Zero
    ELSE RAdd(atrs[Len(atrs) - n + 1], SumLastAtr(atrs, n - 1))

\* VolatilityRegimeIndicator.next on the ATR line atrs (latest value last)
VolatilityRegimeIndicator_next(p, lookback, atrs) ==
    IF Len(atrs) < lookback THEN [regime |-> 1, regime_score |-> One]
    ELSE VolatilityRegimeIndicator(p, atrs[Len(atrs)],
                                   RDiv(SumLastAtr(atrs, lookback), R(lookback)))

\* self.indicators[name]["regime"] on the current bar
regime_of(s, m, name) ==
    VolatilityRegimeIndicator(s.p, m.bar[name].atr, m.bar[name].atr_mean)

\* CoinDCXStrategy.get_current_drawdown: the peak it stores, the value it returns
peak_after(s, m) == RMax(s.peak_value, m.value)
get_current_drawdown(s, m) ==
    IF peak_after(s, m) = Zero THEN Zero
    ELSE RDiv(RSub(peak_after(s, m), m.value), peak_after(s, m))

\* CoinDCXStrategy._calculate_portfolio_heat
RECURSIVE SumOpenRisk(_, _, _)
SumOpenRisk(s, m, i) ==
    IF i > Len(Datas) THEN Zero
    ELSE LET d == Datas[i]
             risk == IF RGt(m.position[d], Zero) /\ d \in DOMAIN s.stop_prices
                     THEN RMax(Zero, RMul(RSub(m.bar[d].close, s.stop_prices[d]),
                                          m.position[d]))
                     ELSE Zero
         IN  RAdd(risk, SumOpenRisk(s, m, i + 1))
calculate_portfolio_heat(s, m) ==
    IF m.value = Zero THEN Zero ELSE RDiv(SumOpenRisk(s, m, 1), m.value)

\* CoinDCXStrategy.get_position_size (the value returned)
get_position_size(s, m, name, regime_score) ==
    LET equity == m.value
        atr == m.bar[name].atr
        price == m.bar[name].close
        drawdown_now == get_current_drawdown(s, m)
        r0 == RMul(RMul(equity, s.p.risk_per_trade), regime_score)
        r1 == IF RGt(drawdown_now, s.p.drawdown_critical)
                  THEN RMul(r0, s.p.drawdown_critical_multiplier)
              ELSE IF RGt(drawdown_now, s.p.drawdown_warning)
                  THEN RMul(r0, s.p.drawdown_warning_multiplier)
              ELSE r0
        regime_adjusted_risk ==
              IF s.consecutive_losses >= s.p.consecutive_loss_limit
              THEN RMul(r1, s.p.consecutive_loss_multiplier) ELSE r1
        stop_distance == RMul(atr, s.p.stop_atr_multiple)
        capped == RMin(RMul(RDiv(regime_adjusted_risk, stop_distance), price),
                       RMul(equity, s.p.max_position_pct))
        max_risk == RMul(RSub(s.p.max_portfolio_heat, calculate_portfolio_heat(s, m)),
                         equity)
    IN  IF atr = Zero \/ price = Zero THEN Zero
        ELSE IF RLt(max_risk, regime_adjusted_risk)
             THEN RMul(RDiv(max_risk, stop_distance), price)
             ELSE capped

\* number of data feeds with a position
RECURSIVE CountPositions(_, _)
CountPositions(m, i) ==
    IF i > Len(Datas) THEN 0
    ELSE (IF RGt(m.position[Datas[i]], Zero) THEN 1 ELSE 0) + CountPositions(m, i + 1)

\* the breakout test without the previous close
check_entry_conditions_any_cross(s, m, name) ==
    LET b == m.bar[name]
        breakout_level == RSub(b.highest_prev, RMul(b.atr, s.p.breakout_atr_multiple))
    IN  IF RGt(m.position[name], Zero) THEN [signal |-> "FLAT", peak |-> s.peak_value]
        ELSE IF s.orders[name] # "none" THEN [signal |-> "FLAT", peak |-> s.peak_value]
        ELSE IF CountPositions(m, 1) >= s.p.max_positions
             THEN [signal |-> "FLAT", peak |-> s.peak_value]
        ELSE IF RGt(get_current_drawdown(s, m), s.p.max_drawdown)
             THEN [signal |-> "FLAT", peak |-> peak_after(s, m)]
        ELSE IF regime_of(s, m, name).regime >= 2
             THEN [signal |-> "FLAT", peak |-> peak_after(s, m)]
        ELSE IF RLe(b.ema_fast, b.ema_slow)
             THEN [signal |-> "FLAT", peak |-> peak_after(s, m)]
        ELSE IF RLt(b.adx, s.p.adx_threshold)
             THEN [signal |-> "FLAT", peak |-> peak_after(s, m)]
        ELSE IF RGt(b.close, breakout_level)
             THEN [signal |-> "LONG", peak |-> peak_after(s, m)]
        ELSE [signal |-> "FLAT", peak |-> peak_after(s, m)]

\* CoinDCXStrategy.check_entry_conditions: the signal, and whether
\* get_current_drawdown was reached (it stores the peak)
check_entry_conditions(s, m, name) ==
    LET b == m.bar[name]
        breakout_level == RSub(b.highest_prev, RMul(b.atr, s.p.breakout_atr_multiple))
    IN  IF RGt(m.position[name], Zero) THEN [signal |-> "FLAT", peak |-> s.peak_value]
        ELSE IF s.orders[name] # "none" THEN [signal |-> "FLAT", peak |-> s.peak_value]
        ELSE IF CountPositions(m, 1) >= s.p.max_positions
             THEN [signal |-> "FLAT", peak |-> s.peak_value]
        ELSE IF RGt(get_current_drawdown(s, m), s.p.max_drawdown)
             THEN [signal |-> "FLAT", peak |-> peak_after(s, m)]
        ELSE IF regime_of(s, m, name).regime >= 2
             THEN [signal |-> "FLAT", peak |-> peak_after(s, m)]
        ELSE IF RLe(b.ema_fast, b.ema_slow)
             THEN [signal |-> "FLAT", peak |-> peak_after(s, m)]
        ELSE IF RLt(b.adx, s.p.adx_threshold)
             THEN [signal |-> "FLAT", peak |-> peak_after(s, m)]
        ELSE IF RGt(b.close, breakout_level) /\ RLe(m.prev_close[name], breakout_level)
             THEN [signal |-> "LONG", peak |-> peak_after(s, m)]
        ELSE [signal |-> "FLAT", peak |-> peak_after(s, m)]

\* check_exit_conditions, trailing stop: the candidate trails by the stop multiple
trailing_update_stop_multiple(s, m, name) ==
    LET b == m.bar[name]
        profit_atr == IF RGt(b.atr, Zero)
                      THEN RDiv(RSub(b.close, s.entry_prices[name]), b.atr) ELSE Zero
        new_stop == RSub(b.close, RMul(b.atr, s.p.stop_atr_multiple))
    IN  IF RGe(profit_atr, s.p.trailing_activation)
        THEN [s EXCEPT !.trailing_active = DictSet(s.trailing_active, name, TRUE),
                       !.stop_prices =
                           IF RGt(new_stop, DictGet(s.stop_prices, name, Zero))
                           THEN DictSet(s.stop_prices, name, new_stop)
                           ELSE s.stop_prices]
        ELSE s

\* check_exit_conditions, trailing stop: the stop is always moved to the candidate
trailing_update_unratcheted(s, m, name) ==
    LET b == m.bar[name]
        profit_atr == IF RGt(b.atr, Zero)
                      THEN RDiv(RSub(b.close, s.entry_prices[name]), b.atr) ELSE Zero
        new_stop == RSub(b.close, RMul(b.atr, s.p.trailing_atr_multiple))
    IN  IF RGe(profit_atr, s.p.trailing_activation)
        THEN [s EXCEPT !.trailing_active = DictSet(s.trailing_active, name, TRUE),
                       !.stop_prices = DictSet(s.stop_prices, name, new_stop)]
        ELSE s

\* check_exit_conditions, trailing stop: the target trails with the stop
trailing_update_moves_target(s, m, name) ==
    LET b == m.bar[name]
        profit_atr == IF RGt(b.atr, Zero)
                      THEN RDiv(RSub(b.close, s.entry_prices[name]), b.atr) ELSE Zero
        new_stop == RSub(b.close, RMul(b.atr, s.p.trailing_atr_multiple))
    IN  IF RGe(profit_atr, s.p.trailing_activation)
        THEN [s EXCEPT !.trailing_active = DictSet(s.trailing_active, name, TRUE),
                       !.stop_prices =
                           IF RGt(new_stop, DictGet(s.stop_prices, name, Zero))
                           THEN DictSet(s.stop_prices, name, new_stop)
                           ELSE s.stop_prices,
                       !.target_prices =
                           DictSet(s.target_prices, name,
                                   RAdd(b.close, RMul(b.atr, s.p.target_atr_multiple)))]
        ELSE s


\* check_exit_conditions, trailing stop: activate and ratchet the stop up
trailing_update(s, m, name) ==
    LET b == m.bar[name]
        profit_atr == IF RGt(b.atr, Zero)
                      THEN RDiv(RSub(b.close, s.entry_prices[name]), b.atr) ELSE Zero
        new_stop == RSub(b.close, RMul(b.atr, s.p.trailing_atr_multiple))
    IN  IF RGe(profit_atr, s.p.trailing_activation)
        THEN [s EXCEPT !.trailing_active = DictSet(s.trailing_active, name, TRUE),
                       !.stop_prices =
                           IF RGt(new_stop, DictGet(s.stop_prices, name, Zero))
                           THEN DictSet(s.stop_prices, name, new_stop)
                           ELSE s.stop_prices]
        ELSE s

\* check_exit_conditions, the tests after the trailing update: the reason logged
\* the target is tested before the stop
exit_condition_target_first(s, m, name) ==
    LET b == m.bar[name]
    IN  IF name \in DOMAIN s.target_prices /\ RGe(b.high, s.target_prices[name])
        THEN "target"
        ELSE IF RLe(b.close, DictGet(s.stop_prices, name, Zero)) THEN "stop"
        ELSE IF regime_of(s, m, name).regime = 3 THEN "regime"
        ELSE IF RLt(b.close, b.ema_slow) /\ RGe(b.close, s.entry_prices[name])
             THEN "trend"
        ELSE "none"

exit_condition(s, m, name) ==
    LET b == m.bar[name]
    IN  IF RLe(b.close, DictGet(s.stop_prices, name, Zero)) THEN "stop"
        ELSE IF name \in DOMAIN s.target_prices /\ RGe(b.high, s.target_prices[name])
             THEN "target"
        ELSE IF regime_of(s, m, name).regime = 3 THEN "regime"
        ELSE IF RLt(b.close, b.ema_slow) /\ RGe(b.close, s.entry_prices[name])
             THEN "trend"
        ELSE "none"

\* CoinDCXStrategy.check_exit_conditions: the strategy after it, and the
\* reason for which it returned True ("none" when it returned False)
check_exit_conditions(s, m, name) ==
    IF m.position[name] = Zero THEN [st |-> s, reason |-> "none"]
    ELSE IF s.orders[name] # "none" THEN [st |-> s, reason |-> "none"]
    ELSE IF name \notin DOMAIN s.entry_prices THEN [st |-> s, reason |-> "none"]
    ELSE LET s1 == trailing_update(s, m, name)
         IN  [st |-> s1, reason |-> exit_condition(s1, m, name)]

\* exits are checked on every bar, pending close or not
exit_check_unguarded(w, name) == check_exit_conditions(w.st, w.mkt, name)

\* CoinDCXStrategy.next, "Check exits first (skip if already pending close)"
exit_check(w, name) ==
    IF ~w.st.pending_close[name]
    THEN check_exit_conditions(w.st, w.mkt, name)
    ELSE [st |-> w.st, reason |-> "none"]

\* CoinDCXStrategy.next, the body of its loop for one data feed; w is the
\* record of st, mkt and out
next_data(w, name) ==
    LET x == exit_check(w, name)
    IN  IF x.reason # "none"
        THEN \* self.close(data=data); self.pending_close[name] = True; continue
             [ st  |-> [x.st EXCEPT !.pending_close[name] = TRUE],
               mkt |-> [w.mkt EXCEPT !.sell_order[name] = TRUE],
               out |-> [w.out EXCEPT !.exit[name] = x.reason] ]
        ELSE LET e == check_entry_conditions(x.st, w.mkt, name)
                 s1 == [x.st EXCEPT !.peak_value = e.peak]
                 b == w.mkt.bar[name]
                 position_value ==
                     get_position_size(s1, w.mkt, name,
                                       regime_of(s1, w.mkt, name).regime_score)
                 s2 == [s1 EXCEPT !.peak_value = peak_after(s1, w.mkt)]
                 o1 == [w.out EXCEPT !.signal[name] = e.signal]
             IN  IF e.signal # "LONG"
                 THEN [st |-> s1, mkt |-> w.mkt, out |-> o1]
                 ELSE IF RLe(position_value, Zero)
                 THEN [st |-> s2, mkt |-> w.mkt,
                       out |-> [o1 EXCEPT !.position_value[name] = position_value]]
                 ELSE [ st  |-> [s2 EXCEPT
                           !.orders[name] = "buy",
                           !.entry_prices = DictSet(s2.entry_prices, name, b.close),
                           !.stop_prices = DictSet(s2.stop_prices, name,
                               RSub(b.close, RMul(b.atr, s2.p.stop_atr_multiple))),
                           !.target_prices = DictSet(s2.target_prices, name,
                               RAdd(b.close, RMul(b.atr, s2.p.target_atr_multiple))),
                           !.trailing_active = DictSet(s2.trailing_active, name, FALSE)],
                        mkt |-> [w.mkt EXCEPT !.buy_order[name] =
                                     RDiv(position_value, b.close)],
                        out |-> [o1 EXCEPT !.position_value[name] = position_value] ]

\* CoinDCXStrategy.next: the loop over self.datas
RECURSIVE next_from(_, _)
next_from(w, i) ==
    IF i > Len(Datas) THEN w ELSE next_from(next_data(w, Datas[i]), i + 1)

\* CoinDCXStrategy.notify_order for a Completed, Canceled, Margin or Rejected order
notify_order(s, name) == [s EXCEPT !.orders[name] = "none"]

\* CoinDCXStrategy.notify_trade for a closed trade
notify_trade(s, name, net_pnl) ==
    [s EXCEPT
        !.consecutive_wins   = IF RGt(net_pnl, Zero) THEN s.consecutive_wins + 1 ELSE 0,
        !.consecutive_losses = IF RGt(net_pnl, Zero) THEN 0 ELSE s.consecutive_losses + 1,
        !.entry_prices    = DictDel(s.entry_prices, name),
        !.stop_prices     = DictDel(s.stop_prices, name),
        !.target_prices   = DictDel(s.target_prices, name),
        !.trailing_active = DictDel(s.trailing_active, name),
        !.pending_close[name] = FALSE ]

----------------------------------------------------------------------------
(* StateManager (src/src/state_manager.py) and LiveTrader with its          *)
(* LiveOrderExecutor (src/src/live_trader.py).                              *)
(*                                                                          *)
(* store is the durable state (the SQLite tables positions, checkpoints and *)
(* trades); lt is the LiveTrader process: its configuration, its position   *)
(* in run_cycle and its fields.  Timestamps, order ids and log output are   *)
(* left out.                                                                *)

NoPosition == [status |-> "none"]
NoCheckpoint == [cycle_count |-> -1]

\* state_manager.Position; last_price stands for metadata["last_price"]
StorePosition(symbol, quantity, entry_price, stop_loss, take_profit) ==
    [ symbol      |-> symbol,
      side        |-> "buy",
      quantity    |-> quantity,
      entry_price |-> entry_price,
      stop_loss   |-> stop_loss,
      take_profit |-> take_profit,
      status      |-> "open",
      pnl         |-> Zero,
      exit_price  |-> Zero,
      last_price  |-> NoneR ]

\* the tables after _init_db on an empty state directory
StoreInit == [positions |-> <<>>, checkpoints |-> <<>>, trades |-> <<>>]

\* SqliteStateManager.save_position: INSERT OR REPLACE on the key symbol
save_position(db, position) ==
    [db EXCEPT !.positions = DictSet(db.positions, position.symbol, position)]

\* SqliteStateManager.get_position
get_position(db, symbol) == DictGet(db.positions, symbol, NoPosition)

\* SqliteStateManager.load_positions(status)
load_positions(db, status) ==
    {db.positions[x] : x \in {y \in DOMAIN db.positions : db.positions[y].status = status}}

\* state_manager.get_open_positions
get_open_positions(db) == load_positions(db, "open")

\* the column values save_checkpoint binds: paper_mode as 1 or 0
checkpoint_row(checkpoint) ==
    [checkpoint EXCEPT !.paper_mode = IF checkpoint.paper_mode THEN 1 ELSE 0]

\* the Checkpoint load_checkpoint builds from a row: bool(paper_mode),
\* drawdown_pct or 0.0, consecutive_losses or 0
row_checkpoint(row) ==
    [row EXCEPT !.paper_mode = (row.paper_mode # 0),
                !.drawdown_pct = IF IsNone(row.drawdown_pct) \/ row.drawdown_pct = Zero
                                 THEN Zero ELSE row.drawdown_pct,
                !.consecutive_losses = IF row.consecutive_losses = 0 THEN 0
                                       ELSE row.consecutive_losses]

\* SqliteStateManager.save_checkpoint: INSERT of a new row
save_checkpoint(db, checkpoint) ==
    [db EXCEPT !.checkpoints = Append(db.checkpoints, checkpoint_row(checkpoint))]

\* the row with the least id
oldest_row(db) == db.checkpoints[1]

\* SqliteStateManager.load_checkpoint: the row with the greatest id
mostrecent_row(db) == db.checkpoints[Len(db.checkpoints)]
load_checkpoint(db) ==
    IF db.checkpoints = <<>> THEN NoCheckpoint
    ELSE row_checkpoint(mostrecent_row(db))

\* SqliteStateManager.get_trade_history(limit=1000): "ORDER BY id DESC"
get_trade_history(db) == [i \in 1..Len(db.trades) |-> db.trades[Len(db.trades) + 1 - i]]

\* SqliteStateManager.export_json: the state written to the file
export_json(db) ==
    [ positions     |-> db.positions,
      checkpoint    |-> load_checkpoint(db),
      recent_trades |-> get_trade_history(db) ]

\* no file written
NoBackup == [positions |-> "none"]

\* what the sqlite statement of a save does: it executes, or it raises
SqliteWrites == {"ok", "raises"}

\* SqliteStateManager.save_position with auto_backup (the default): the
\* INSERT OR REPLACE, then _backup_json, "return True"; an exception of the
\* statement is caught, "return False".  backup is what the call wrote to
\* json_backup_path.
sqlite_save_position(db, position, write) ==
    IF write = "ok"
    THEN [ db     |-> save_position(db, position),
           ret    |-> TRUE,
           backup |-> export_json(save_position(db, position)) ]
    ELSE [db |-> db, ret |-> FALSE, backup |-> NoBackup]

\* SqliteStateManager.save_checkpoint with auto_backup, likewise
sqlite_save_checkpoint(db, checkpoint, write) ==
    IF write = "ok"
    THEN [ db     |-> save_checkpoint(db, checkpoint),
           ret    |-> TRUE,
           backup |-> export_json(save_checkpoint(db, checkpoint)) ]
    ELSE [db |-> db, ret |-> FALSE, backup |-> NoBackup]


\* SqliteStateManager.record_trade
record_trade(db, trade) == [db EXCEPT !.trades = Append(db.trades, trade)]

\* JsonFileStateManager._state after __init__ and initialize on a new file
JsonStoreInit == [positions |-> <<>>, checkpoint |-> NoCheckpoint, trades |-> <<>>]

\* which implementation of StateManager a store value belongs to
IsJson(db) == "checkpoint" \in DOMAIN db

\* JsonFileStateManager.save_checkpoint: the one checkpoint slot is replaced
json_save_checkpoint(db, checkpoint) == [db EXCEPT !.checkpoint = checkpoint]

\* JsonFileStateManager.load_checkpoint
json_load_checkpoint(db) == db.checkpoint

\* JsonFileStateManager.record_trade keeps the last 1000 trades
TradeHistoryKept == 1000
json_record_trade(db, trade) ==
    LET all == Append(db.trades, trade)
    IN  [db EXCEPT !.trades =
            IF Len(all) > TradeHistoryKept
            THEN SubSeq(all, Len(all) - TradeHistoryKept + 1, Len(all))
            ELSE all]

\* the abstract StateManager methods, dispatched on the implementation
\* (save_position, get_position and load_positions act alike in both)
manager_record_trade(db, trade) ==
    IF IsJson(db) THEN json_record_trade(db, trade) ELSE record_trade(db, trade)
manager_save_checkpoint(db, checkpoint) ==
    IF IsJson(db) THEN json_save_checkpoint(db, checkpoint)
    ELSE save_checkpoint(db, checkpoint)
manager_load_checkpoint(db) ==
    IF IsJson(db) THEN json_load_checkpoint(db) ELSE load_checkpoint(db)

\* state_manager.close_position
close_position(db, symbol, exit_price, gross_pnl, fees, tax, exit_reason) ==
    LET pos == get_position(db, symbol)
        net_pnl == RSub(RSub(gross_pnl, fees), tax)
        closed == [pos EXCEPT !.status = "closed", !.exit_price = exit_price,
                              !.pnl = net_pnl]
        trade == [ symbol      |-> pos.symbol,
                   side        |-> pos.side,
                   quantity    |-> pos.quantity,
                   entry_price |-> pos.entry_price,
                   exit_price  |-> exit_price,
                   gross_pnl   |-> gross_pnl,
                   fees        |-> fees,
                   tax         |-> tax,
                   net_pnl     |-> net_pnl,
                   status      |-> "closed",
                   exit_reason |-> exit_reason,
                   stop_loss   |-> pos.stop_loss,
                   take_profit |-> pos.take_profit ]
    IN  IF pos = NoPosition THEN db
        ELSE manager_record_trade(save_position(db, closed), trade)

\* SqliteStateManager.import_json: save_position for each entry of
\* state["positions"]; nothing else of the file is read
RECURSIVE import_positions(_, _, _)
import_positions(db, positions, i) ==
    IF i > Len(positions) THEN db
    ELSE import_positions(save_position(db, positions[i]), positions, i + 1)
import_json(db, snapshot) == import_positions(db, snapshot.positions, 1)

\* JsonFileStateManager.import_json: self._state = json.load(f), the whole
\* state is the file's ("positions" keyed by symbol, "checkpoint", "trades")
json_import_json(db, snapshot) ==
    [ positions  |-> import_positions(JsonStoreInit, snapshot.positions, 1).positions,
      checkpoint |-> snapshot.checkpoint,
      trades     |-> snapshot.trades ]

manager_import_json(db, snapshot) ==
    IF IsJson(db) THEN json_import_json(db, snapshot) ELSE import_json(db, snapshot)

\* the parameters of state_manager.close_position and the keywords
\* LiveOrderExecutor.execute_sell passes to it
ClosePositionParams ==
    {"manager", "symbol", "exit_price", "gross_pnl", "fees", "tax", "exit_reason",
     "regime_at_exit"}
ExecuteSellKeywords ==
    {"exit_price", "gross_pnl", "fees", "tax", "exit_reason", "market_state_exit"}

\* the store after LiveOrderExecutor.execute_sell (gross_pnl, fees, tax at
\* their defaults): a keyword close_position does not have raises TypeError
\* before its body runs; execute_sell catches and logs it
execute_sell_store(db, symbol, price, exit_reason) ==
    IF ExecuteSellKeywords \subseteq ClosePositionParams
    THEN close_position(db, symbol, price, Zero, Zero, Zero, exit_reason)
    ELSE db

\* the store after LiveOrderExecutor.execute_buy of an executor that has a
\* state manager and no risk manager (paper trade): "Record position in
\* state manager"
execute_buy_store(db, symbol, quantity, price, stop_loss, take_profit) ==
    save_position(db, StorePosition(symbol, quantity, price, stop_loss, take_profit))

\* RiskLimits as LiveTrader.__init__ builds them from config.risk; the other
\* fields keep the dataclass defaults
LiveLimits(config) ==
    [DefaultLimits EXCEPT
        !.max_risk_per_trade = config.risk_per_trade,
        !.max_positions      = config.max_open_positions,
        !.max_portfolio_heat = config.max_portfolio_heat,
        !.max_position_pct   = config.max_position_size_pct,
        !.drawdown_halt      = config.max_drawdown]

\* backtrader's position of a data feed
NoBtPosition == [size |-> Zero, price |-> Zero]

\* LiveTrader.__init__, "State tracking", before _attempt_recovery
LiveTraderInit(config) ==
    [ config             |-> config,
      pc                 |-> "idle",
      cycle_count        |-> 0,
      peak_value         |-> config.initial_capital,
      consecutive_losses |-> 0,
      paper_trade        |-> TRUE,
      strategy           |-> FALSE,
      bt_position        |-> [d \in DataNames |-> NoBtPosition],
      portfolio_value    |-> Zero,
      cash               |-> Zero,
      sync_next          |-> 1 ]

\* _attempt_recovery, "Sync positions to RiskManager"
RECURSIVE register_open_positions(_, _, _)
register_open_positions(r, db, i) ==
    IF i > Len(Datas) THEN r
    ELSE LET pos == get_position(db, Datas[i])
             risk_pos ==
                 [ symbol       |-> pos.symbol,
                   entry_price  |-> pos.entry_price,
                   quantity     |-> pos.quantity,
                   stop_price   |-> pos.stop_loss,
                   target_price |-> pos.take_profit,
                   risk_amount  |-> IF RGt(pos.stop_loss, Zero)
                                    THEN RMul(RSub(pos.entry_price, pos.stop_loss),
                                              pos.quantity)
                                    ELSE Zero ]
         IN  IF pos \in get_open_positions(db)
             THEN register_open_positions(add_position(r, risk_pos), db, i + 1)
             ELSE register_open_positions(r, db, i + 1)

\* LiveTrader._attempt_recovery: the LiveTrader and its RiskManager after it
attempt_recovery(l, r, db) ==
    LET checkpoint == load_checkpoint(db)
        r1 == update_equity(r, checkpoint.portfolio_value)
        r2 == [r1 EXCEPT !.consecutive_losses = checkpoint.consecutive_losses,
                         !.peak_equity = RMax(r1.peak_equity, checkpoint.portfolio_value)]
    IN  IF checkpoint = NoCheckpoint THEN [lt |-> l, rm |-> r]
        ELSE [ lt |-> [l EXCEPT !.cycle_count = checkpoint.cycle_count,
                                !.consecutive_losses = checkpoint.consecutive_losses,
                                !.peak_value = checkpoint.portfolio_value],
               rm |-> register_open_positions(r2, db, 1) ]

\* LiveTrader._save_checkpoint: the LiveTrader and the store after it
save_checkpoint_of(l, db, portfolio_value, cash) ==
    LET peak == IF RGt(portfolio_value, l.peak_value) THEN portfolio_value
                ELSE l.peak_value
        checkpoint ==
            [ cycle_count        |-> l.cycle_count,
              portfolio_value    |-> portfolio_value,
              cash               |-> cash,
              positions_value    |-> RSub(portfolio_value, cash),
              open_positions     |-> Cardinality(get_open_positions(db)),
              drawdown_pct       |-> RMul(RDiv(RSub(peak, portfolio_value), peak), R(100)),
              consecutive_losses |-> l.consecutive_losses,
              paper_mode         |-> l.paper_trade ]
    IN  [ lt |-> [l EXCEPT !.peak_value = peak],
          store |-> save_checkpoint(db, checkpoint) ]

\* LiveTrader._sync_position
sync_position(l, db, symbol, bt_position, current_price) ==
    LET existing == get_position(db, symbol)
    IN  IF RGt(bt_position.size, Zero)
        THEN IF existing # NoPosition /\ existing.status = "open"
             THEN save_position(db, [existing EXCEPT !.last_price = current_price])
             ELSE save_position(db,
                      [StorePosition(symbol, bt_position.size, bt_position.price,
                                     Zero, Zero)
                           EXCEPT !.last_price = current_price])
        ELSE IF existing # NoPosition /\ existing.status = "open"
             THEN close_position(db, symbol, current_price, Zero, Zero, Zero, "")
             ELSE db

\* LiveOrderExecutor.execute_buy.  With a RiskManager the call
\* calculate_position_size(price=, stop_distance=, volatility_adjustment=1.0)
\* names a parameter the method does not have: Python raises TypeError there,
\* outside every try block of execute_buy, and the statements after it
\* (lines 355-476) are never reached.
execute_buy(r) ==
    IF can_trade(r) = BLOCK THEN "False" ELSE "TypeError"

\* LiveOrderExecutor.execute_sell as LiveTradingMixin.notify_order calls it
\* (gross_pnl, fees and tax at their default 0.0): close_position is called
\* with the keyword market_state_exit, which it does not have; the TypeError
\* is caught and logged, the store is not written; then the RiskManager is
\* updated with is_win = (0.0 > 0).
execute_sell(r, symbol) ==
    remove_position(record_trade_result(r, symbol, Zero, Zero, RGt(Zero, Zero)), symbol)

\* what the exchange answers to CoinDCXExecutor.execute_buy / execute_sell:
\* an order response, nothing (a falsy value), or an exception
VenueResponses == {"response", "none", "raises"}

execute_buy_live_assume_fill(db, r, risk_manager, order, response) ==
    [ store |-> save_position(db, StorePosition(order.symbol, order.quantity, order.price,
                                                order.stop_loss, order.take_profit)),
      rm    |-> r,
      ret   |-> "True" ]

\* LiveOrderExecutor.execute_buy, live branch (paper_trade False), from the
\* answer of the exchange on: with a response the Position is built and
\* saved and the RiskPosition registered, "return True"; without one, or on
\* an exception, "return False"
execute_buy_live(db, r, risk_manager, order, response) ==
    IF response = "response"
    THEN [ store |-> save_position(db, StorePosition(order.symbol, order.quantity,
                                       order.price, order.stop_loss, order.take_profit)),
           rm    |-> IF risk_manager
                     THEN add_position(r,
                              [ symbol |-> order.symbol, entry_price |-> order.price,
                                quantity |-> order.quantity, stop_price |-> order.stop_loss,
                                target_price |-> order.take_profit,
                                risk_amount |-> IF RGt(order.stop_loss, Zero)
                                                THEN RMul(RSub(order.price, order.stop_loss),
                                                          order.quantity)
                                                ELSE Zero ])
                     ELSE r,
           ret   |-> "True" ]
    ELSE [store |-> db, rm |-> r, ret |-> "False"]

execute_sell_live_assume_fill(db, r, risk_manager, order, response) ==
    [ store |-> execute_sell_store(db, order.symbol, order.price, "Strategy Signal"),
      rm    |-> IF risk_manager THEN execute_sell(r, order.symbol) ELSE r,
      ret   |-> "True" ]

\* LiveOrderExecutor.execute_sell, live branch, from the answer of the
\* exchange on
execute_sell_live(db, r, risk_manager, order, response) ==
    IF response = "response"
    THEN [ store |-> execute_sell_store(db, order.symbol, order.price, "Strategy Signal"),
           rm    |-> IF risk_manager THEN execute_sell(r, order.symbol) ELSE r,
           ret   |-> "True" ]
    ELSE [store |-> db, rm |-> r, ret |-> "False"]


----------------------------------------------------------------------------
(* Inputs and bounds of the RiskManager specification                       *)

\* most trades recorded on one day, longest win or loss streak
MaxTrades == 2
MaxStreak == 3
\* longest win or loss streak of the strategy
MaxStrategyStreak == 1
\* most trading cycles of one LiveTrader
MaxCycles == 2
\* the lookback of the volatility regime indicator
Lookback == 3
\* most rows of the trades table and of the checkpoints table
MaxStoreTrades == 2
MaxCheckpoints == 2

Symbols == {"BTCINR", "ETHINR"}
InitialEquity == R(100000)
Equities == {R(80000), R(85000), R(90000), R(100000)}

\* positions handed to add_position by a caller
RiskPosition(symbol, entry, qty, stop, target) ==
    [ symbol |-> symbol, entry_price |-> entry, quantity |-> qty, stop_price |-> stop,
      target_price |-> target, risk_amount |-> RMul(RSub(entry, stop), qty) ]
\* the position a caller registers for each symbol
CallerPositions ==
    [ BTCINR |-> RiskPosition("BTCINR", R(50000), <<1, 10>>, R(30000), R(90000)),
      ETHINR |-> RiskPosition("ETHINR", R(50000), <<1, 2>>, R(40000), R(70000)) ]

\* argument tuples of calculate_position_size:
\* <<price, stop_distance, regime_score, base_risk_pct>>
SizingCalls ==
    { <<R(50000), R(2000), One, NoneR>>,
      <<R(1000), R(1000), <<3, 2>>, NoneR>>,
      <<R(1000), R(1000), R(2), <<1, 20>>>>,
      <<R(1000), R(1000), <<3, 10>>, <<1, 1000>>>>,
      <<R(1000), R(500), <<4, 5>>, <<1, 100>>>>,
      <<R(1000), R(1000), One, Zero>>,
      <<Zero, R(1000), One, NoneR>>,
      <<R(1000), Zero, One, NoneR>>,
      <<R(1000), R(-500), One, NoneR>> }

\* results handed to record_trade_result
TradeResults ==
    { [gross_pnl |-> R(1000), fees |-> R(100), is_win |-> TRUE],
      [gross_pnl |-> R(-1000), fees |-> R(100), is_win |-> FALSE] }

NoCall == [op |-> "none"]

\* A bar of a data feed with the indicator values the strategy reads on it
Bar(close, high, atr, atr_mean, ema_fast, ema_slow, adx, highest_prev) ==
    [ close |-> R(close), high |-> R(high), atr |-> R(atr), atr_mean |-> R(atr_mean),
      ema_fast |-> R(ema_fast), ema_slow |-> R(ema_slow), adx |-> R(adx),
      highest_prev |-> R(highest_prev) ]

\* below the breakout level 102 - 1.5 * 2 = 99
QuietBar    == Bar(98, 99, 2, 2, 97, 96, 35, 102)
\* a fresh cross of the breakout level in a normal regime with a confirmed trend
BreakoutBar == Bar(100, 100, 2, 2, 99, 97, 35, 102)
RallyBar    == Bar(103, 104, 2, 2, 101, 98, 35, 102)
RetraceBar  == Bar(101, 102, 2, 2, 100, 98, 35, 102)
\* close under every stop, high over every target, extreme regime
CrashBar    == Bar(94, 115, 6, 2, 96, 98, 35, 102)
\* high over every target, extreme regime, close under the slow EMA
TargetBar   == Bar(101, 115, 6, 2, 100, 102, 35, 102)
\* extreme regime, close under the slow EMA
ExtremeBar  == Bar(101, 102, 6, 2, 100, 102, 35, 102)
\* close under the slow EMA only
TrendBar    == Bar(101, 102, 2, 2, 100, 102, 35, 102)

\* what arrives with a bar: the bar of every feed and the broker's value
Arrival(btc, eth, value) ==
    [bars |-> [BTCINR |-> btc, ETHINR |-> eth], value |-> R(value)]
Arrivals ==
    { Arrival(QuietBar, QuietBar, 100000),
      Arrival(BreakoutBar, QuietBar, 100000),
      Arrival(BreakoutBar, BreakoutBar, 80000),
      Arrival(RallyBar, QuietBar, 100000),
      Arrival(RetraceBar, QuietBar, 100000),
      Arrival(CrashBar, QuietBar, 100000),
      Arrival(TargetBar, QuietBar, 100000),
      Arrival(ExtremeBar, QuietBar, 100000),
      Arrival(TrendBar, QuietBar, 100000) }

\* net profit of a closed trade
NetPnls == {R(900), R(-1100)}

\* backtrader after cerebro is set up: no position, no order
MarketInit(value) ==
    [ position    |-> [d \in DataNames |-> Zero],
      buy_order   |-> [d \in DataNames |-> Zero],
      sell_order  |-> [d \in DataNames |-> FALSE],
      value       |-> value,
      bar         |-> [d \in DataNames |-> QuietBar],
      prev_close  |-> [d \in DataNames |-> QuietBar.close],
      enough_data |-> FALSE ]

NoReport ==
    [ exit           |-> [d \in DataNames |-> "none"],
      signal         |-> [d \in DataNames |-> "none"],
      position_value |-> [d \in DataNames |-> Zero] ]

\* config.trading.initial_capital and the five fields read from config.risk
LiveConfig(max_open_positions) ==
    [ initial_capital       |-> R(100000),
      risk_per_trade        |-> <<3, 20>>,
      max_open_positions    |-> max_open_positions,
      max_portfolio_heat    |-> <<3, 10>>,
      max_position_size_pct |-> <<1, 5>>,
      max_drawdown          |-> <<1, 5>> ]
\* a configuration that admits five positions, and one that admits none
LiveConfigs == {LiveConfig(5), LiveConfig(0)}

\* a completed buy order of cerebro's broker, per data feed
BtFills ==
    [ BTCINR |-> [size |-> R(200), price |-> R(100)],
      ETHINR |-> [size |-> R(100), price |-> R(200)] ]
\* broker.getvalue() at the end of cerebro.run(); data.close[0] of a feed
LiveValues == {R(100000), R(90000), R(125000)}
LastPrice == [BTCINR |-> R(103), ETHINR |-> R(198)]
\* order.executed.price of a completed sell order
BtSellPrices == {R(103), R(198)}

RiskIdle == rm = RiskManagerInit(InitialEquity, DefaultLimits) /\ call = NoCall /\ ret = Zero
LiveIdle == store = StoreInit /\ lt = LiveTraderInit(LiveConfig(5)) /\ venue = {}
StrategyIdle ==
    /\ st = StrategyInit(DefaultParams, InitialEquity)
    /\ mkt = MarketInit(InitialEquity)
    /\ out = NoReport

----------------------------------------------------------------------------
(* Spec: every sequence of calls of the RiskManager's methods               *)

Init ==
    /\ \E l \in LimitsConfigs : rm = RiskManagerInit(InitialEquity, l)
    /\ call = NoCall
    /\ ret = Zero
    /\ StrategyIdle
    /\ LiveIdle

UpdateEquity ==
    \E e \in Equities :
        /\ rm' = update_equity(rm, e)
        /\ call' = NoCall
        /\ ret' = Zero
        /\ UNCHANGED <<strategyVars, liveVars>>

CalculatePositionSize ==
    \E a \in SizingCalls :
        /\ call' = [op |-> "calculate_position_size", price |-> a[1],
                    stop_distance |-> a[2], regime_score |-> a[3],
                    base_risk_pct |-> a[4]]
        /\ ret' = calculate_position_size(rm, a[1], a[2], a[3], a[4])
        /\ rm' = rm
        /\ UNCHANGED <<strategyVars, liveVars>>

AddPosition ==
    \E sym \in Symbols :
        /\ rm' = add_position(rm, CallerPositions[sym])
        /\ call' = NoCall
        /\ ret' = Zero
        /\ UNCHANGED <<strategyVars, liveVars>>

RemovePosition ==
    \E sym \in Symbols :
        /\ rm' = remove_position(rm, sym)
        /\ call' = NoCall
        /\ ret' = Zero
        /\ UNCHANGED <<strategyVars, liveVars>>

RecordTradeResult ==
    \E sym \in Symbols, t \in TradeResults :
        /\ rm.daily_stats.trades_count < MaxTrades
        /\ rm.consecutive_losses < MaxStreak
        /\ rm.consecutive_wins < MaxStreak
        /\ rm' = record_trade_result(rm, sym, t.gross_pnl, t.fees, t.is_win)
        /\ call' = NoCall
        /\ ret' = Zero
        /\ UNCHANGED <<strategyVars, liveVars>>

NewDay ==
    /\ rm' = new_day(rm, rm.equity)
    /\ call' = NoCall
    /\ ret' = Zero
    /\ UNCHANGED <<strategyVars, liveVars>>

Next ==
    \/ UpdateEquity
    \/ CalculatePositionSize
    \/ AddPosition
    \/ RemovePosition
    \/ RecordTradeResult
    \/ NewDay

Spec == Init /\ [][Next]_vars

----------------------------------------------------------------------------
(* SpecHeat: the callers' protocol for opening positions.  Each new position *)
(* is sized by calculate_position_size and registered by add_position with   *)
(* risk_amount = (size / price) * stop_distance; positions are removed by    *)
(* remove_position.                                                          *)

SizedPosition(symbol, price, stop_distance, size) ==
    LET qty == RDiv(size, price)
    IN  [ symbol       |-> symbol,
          entry_price  |-> price,
          quantity     |-> qty,
          stop_price   |-> RSub(price, stop_distance),
          target_price |-> RAdd(price, RMul(R(2), stop_distance)),
          risk_amount  |-> RMul(qty, stop_distance) ]

OpenSizedPosition ==
    \E sym \in Symbols, a \in SizingCalls :
        LET size == calculate_position_size(rm, a[1], a[2], a[3], a[4])
        IN  /\ RGt(size, Zero)
            /\ rm' = add_position(rm, SizedPosition(sym, a[1], a[2], size))
            /\ call' = [op |-> "add_position", symbol |-> sym, price |-> a[1],
                        stop_distance |-> a[2], regime_score |-> a[3],
                        base_risk_pct |-> a[4]]
            /\ ret' = size
            /\ UNCHANGED <<strategyVars, liveVars>>

CloseSizedPosition ==
    \E sym \in DOMAIN rm.positions :
        /\ rm' = remove_position(rm, sym)
        /\ call' = [op |-> "remove_position", symbol |-> sym]
        /\ ret' = Zero
        /\ UNCHANGED <<strategyVars, liveVars>>

NextHeat == OpenSizedPosition \/ CloseSizedPosition

SpecHeat == Init /\ [][NextHeat]_vars

----------------------------------------------------------------------------
(* SpecStrategy: CoinDCXStrategy run by backtrader.  A bar arrives on every *)
(* data feed and next() is called; between bars the broker completes or     *)
(* refuses the orders the strategy has issued and notifies the strategy.    *)

InitStrategy == RiskIdle /\ StrategyIdle /\ LiveIdle

\* the feeds and the broker value on the arrival of a bar
Advance(bars, value) ==
    [mkt EXCEPT !.prev_close = [d \in DataNames |-> mkt.bar[d].close],
                !.bar = bars,
                !.value = value]

\* next() while len(data) < volatility_lookback + adx_period: every feed is skipped
StrategyNextWarmUp ==
    /\ ~mkt.enough_data
    /\ \E a \in Arrivals, ready \in BOOLEAN :
           mkt' = [Advance(a.bars, a.value) EXCEPT !.enough_data = ready]
    /\ out' = NoReport
    /\ UNCHANGED st
    /\ UNCHANGED <<riskVars, liveVars>>

StrategyNext ==
    /\ mkt.enough_data
    /\ \E a \in Arrivals :
           \E w \in {next_from([st |-> st, mkt |-> Advance(a.bars, a.value),
                                out |-> NoReport], 1)} :
               st' = w.st /\ mkt' = w.mkt /\ out' = w.out
    /\ UNCHANGED <<riskVars, liveVars>>

BrokerFillsBuy ==
    \E d \in DataNames :
        /\ mkt.buy_order[d] # Zero
        /\ mkt' = [mkt EXCEPT !.position[d] = mkt.buy_order[d], !.buy_order[d] = Zero]
        /\ st' = notify_order(st, d)
        /\ UNCHANGED out
        /\ UNCHANGED <<riskVars, liveVars>>

BrokerRefusesBuy ==
    \E d \in DataNames :
        /\ mkt.buy_order[d] # Zero
        /\ mkt' = [mkt EXCEPT !.buy_order[d] = Zero]
        /\ st' = notify_order(st, d)
        /\ UNCHANGED out
        /\ UNCHANGED <<riskVars, liveVars>>

BrokerFillsSell ==
    \E d \in DataNames, net_pnl \in NetPnls :
        /\ mkt.sell_order[d]
        /\ st.consecutive_losses < MaxStrategyStreak
        /\ st.consecutive_wins < MaxStrategyStreak
        /\ mkt' = [mkt EXCEPT !.position[d] = Zero, !.sell_order[d] = FALSE]
        /\ st' = notify_trade(notify_order(st, d), d, net_pnl)
        /\ UNCHANGED out
        /\ UNCHANGED <<riskVars, liveVars>>

BrokerRefusesSell ==
    \E d \in DataNames :
        /\ mkt.sell_order[d]
        /\ mkt' = [mkt EXCEPT !.sell_order[d] = FALSE]
        /\ st' = notify_order(st, d)
        /\ UNCHANGED out
        /\ UNCHANGED <<riskVars, liveVars>>

NextStrategy ==
    \/ StrategyNextWarmUp
    \/ StrategyNext
    \/ BrokerFillsBuy
    \/ BrokerRefusesBuy
    \/ BrokerFillsSell
    \/ BrokerRefusesSell

SpecStrategy == InitStrategy /\ [][NextStrategy]_vars

----------------------------------------------------------------------------
(* SpecLive: the LiveTrader process.  run_cycle is taken in steps (cerebro  *)
(* built, order notifications of cerebro.run(), end of the run, one         *)
(* _sync_position per data feed, _save_checkpoint) so that the process can  *)
(* die between them; a dead process is started again by LiveTrader.__init__ *)
(* with its _attempt_recovery.  Every cycle runs a fresh cerebro, so the    *)
(* orders its broker completes are inputs of the cycle.                     *)

InitLive ==
    /\ venue = {}
    /\ \E c \in LiveConfigs :
           /\ lt = LiveTraderInit(c)
           /\ rm = RiskManagerInit(c.initial_capital, LiveLimits(c))
    /\ store = StoreInit
    /\ call = NoCall
    /\ ret = Zero
    /\ StrategyIdle

\* the RiskManager LiveTrader.__init__ constructs
FreshRiskManager == RiskManagerInit(lt.config.initial_capital, LiveLimits(lt.config))

\* run_cycle up to cerebro.run(): the counter, the data feeds of _build_cerebro
RunCycleBegin ==
    /\ lt.pc = "idle"
    /\ lt.cycle_count < MaxCycles
    /\ \E has_data \in BOOLEAN :
           lt' = [lt EXCEPT !.cycle_count = lt.cycle_count + 1,
                            !.pc = IF has_data THEN "run" ELSE "idle",
                            !.bt_position = [d \in DataNames |-> NoBtPosition]]
    /\ UNCHANGED <<rm, store, call, ret, strategyVars, venue>>

\* LiveTradingMixin.notify_order for a completed buy: execute_buy; a
\* TypeError leaves cerebro.run() and is caught by run_cycle, which returns
NotifyOrderBuy ==
    /\ lt.pc = "run"
    /\ \E d \in DataNames :
           /\ lt.bt_position[d] = NoBtPosition
           /\ lt' = IF execute_buy(rm) = "TypeError"
                    THEN [lt EXCEPT !.pc = "idle",
                                    !.bt_position = [x \in DataNames |-> NoBtPosition]]
                    ELSE [lt EXCEPT !.bt_position[d] = BtFills[d]]
    /\ UNCHANGED <<rm, store, call, ret, strategyVars, venue>>

\* LiveTradingMixin.notify_order for a completed sell: execute_sell with the
\* symbol, abs(order.executed.size), order.executed.price and the exit
\* reason; call keeps the request and the position the order closed
NotifyOrderSell ==
    /\ lt.pc = "run"
    /\ rm.daily_stats.trades_count < MaxTrades
    /\ rm.consecutive_losses < MaxStreak
    /\ \E d \in DataNames :
           /\ lt.bt_position[d] # NoBtPosition
           /\ lt' = [lt EXCEPT !.bt_position[d] = NoBtPosition]
           /\ rm' = execute_sell(rm, d)
           /\ \E price \in BtSellPrices :
                  call' = [ op |-> "execute_sell", symbol |-> d,
                            quantity |-> lt.bt_position[d].size, price |-> price,
                            position |-> lt.bt_position[d] ]
    /\ UNCHANGED <<store, ret, strategyVars, venue>>

RECURSIVE BtPositionsValue(_, _)
BtPositionsValue(l, i) ==
    IF i > Len(Datas) THEN Zero
    ELSE RAdd(RMul(l.bt_position[Datas[i]].size, l.bt_position[Datas[i]].price),
              BtPositionsValue(l, i + 1))

\* run_cycle after cerebro.run(): results[0], broker.getvalue(), broker.getcash()
RunEnds ==
    /\ lt.pc = "run"
    /\ \E value \in LiveValues :
           lt' = [lt EXCEPT !.strategy = TRUE,
                            !.portfolio_value = value,
                            !.cash = RSub(value, BtPositionsValue(lt, 1)),
                            !.pc = "sync",
                            !.sync_next = 1]
    /\ UNCHANGED <<rm, store, call, ret, strategyVars, venue>>

\* run_cycle, one turn of the loop over cerebro.datas
SyncPosition ==
    /\ lt.pc = "sync"
    /\ lt.sync_next <= Len(Datas)
    /\ LET d == Datas[lt.sync_next]
       IN  store' = IF lt.bt_position[d].size # Zero
                    THEN sync_position(lt, store, d, lt.bt_position[d], LastPrice[d])
                    ELSE store
    /\ lt' = [lt EXCEPT !.sync_next = lt.sync_next + 1]
    /\ UNCHANGED <<rm, call, ret, strategyVars, venue>>

\* run_cycle, "Save checkpoint after each cycle"
SaveCheckpoint ==
    /\ lt.pc = "sync"
    /\ lt.sync_next > Len(Datas)
    /\ \E x \in {save_checkpoint_of(lt, store, lt.portfolio_value, lt.cash)} :
           /\ lt' = [x.lt EXCEPT !.pc = "idle"]
           /\ store' = x.store
    /\ UNCHANGED <<rm, call, ret, strategyVars, venue>>

\* the process dies: inside a cycle ("crashed") or between cycles ("killed");
\* its memory is lost, the store and the configuration remain
Crash ==
    /\ lt.pc \in {"idle", "run", "sync"}
    /\ lt' = [LiveTraderInit(lt.config) EXCEPT
                 !.pc = IF lt.pc = "idle" THEN "killed" ELSE "crashed"]
    /\ rm' = FreshRiskManager
    /\ UNCHANGED <<store, call, ret, strategyVars, venue>>

\* LiveTrader.stop at the end of start(): the final checkpoint, then exit
Stop ==
    /\ lt.pc = "idle"
    /\ store' = IF lt.strategy
                THEN save_checkpoint_of(lt, store, lt.config.initial_capital,
                                        lt.config.initial_capital).store
                ELSE store
    /\ lt' = [LiveTraderInit(lt.config) EXCEPT !.pc = "stopped"]
    /\ rm' = FreshRiskManager
    /\ UNCHANGED <<call, ret, strategyVars, venue>>

\* Ctrl+C while run_cycle runs: KeyboardInterrupt is no Exception, so it
\* leaves run_cycle where it stands; start() catches it, breaks out of its
\* loop and calls stop(), which saves the final checkpoint and exits
Interrupt ==
    /\ lt.pc \in {"run", "sync"}
    /\ store' = IF lt.strategy
                THEN save_checkpoint_of(lt, store, lt.config.initial_capital,
                                        lt.config.initial_capital).store
                ELSE store
    /\ lt' = [LiveTraderInit(lt.config) EXCEPT !.pc = "stopped"]
    /\ rm' = FreshRiskManager
    /\ UNCHANGED <<call, ret, strategyVars, venue>>


\* LiveTrader.__init__ of a new process on the same state directory
Restart ==
    /\ lt.pc \in {"killed", "crashed", "stopped"}
    /\ \E x \in {attempt_recovery(LiveTraderInit(lt.config), FreshRiskManager, store)} :
           /\ lt' = x.lt
           /\ rm' = x.rm
    /\ UNCHANGED <<store, call, ret, strategyVars, venue>>

NextLive ==
    \/ RunCycleBegin
    \/ NotifyOrderBuy
    \/ NotifyOrderSell
    \/ RunEnds
    \/ SyncPosition
    \/ SaveCheckpoint
    \/ Crash
    \/ Stop
    \/ Interrupt
    \/ Restart

SpecLive == InitLive /\ [][NextLive]_vars

----------------------------------------------------------------------------
(* SpecStore: a StateManager of either implementation under the calls of    *)
(* its clients: a LiveOrderExecutor built with the state manager and no     *)
(* risk manager, _sync_position, close_position, save_checkpoint and        *)
(* import_json.  call records the last request and what it returned.        *)

\* the orders an executor is asked to record
StoreBuys ==
    { [symbol |-> "BTCINR", quantity |-> R(200), price |-> R(100),
       stop_loss |-> R(95), take_profit |-> R(110)],
      [symbol |-> "BTCINR", quantity |-> R(50), price |-> R(120),
       stop_loss |-> R(114), take_profit |-> R(132)] }

\* the checkpoints a client saves
StoreCheckpoint(cycle_count, portfolio_value, drawdown_pct, consecutive_losses, paper_mode) ==
    [ cycle_count        |-> cycle_count,
      portfolio_value    |-> portfolio_value,
      cash               |-> portfolio_value,
      positions_value    |-> Zero,
      open_positions     |-> 0,
      drawdown_pct       |-> drawdown_pct,
      consecutive_losses |-> consecutive_losses,
      paper_mode         |-> paper_mode ]
StoreCheckpoints ==
    { StoreCheckpoint(1, R(100000), Zero, 0, TRUE),
      StoreCheckpoint(2, R(95000), R(5), 1, FALSE) }

\* the files import_json is given: no position; one open position with the
\* checkpoint and the trade of another session
SnapshotTrade ==
    [ symbol |-> "ETHINR", side |-> "buy", quantity |-> R(10), entry_price |-> R(200),
      exit_price |-> R(210), gross_pnl |-> R(100), fees |-> Zero, tax |-> Zero,
      net_pnl |-> R(100), status |-> "closed", exit_reason |-> "take_profit",
      stop_loss |-> R(190), take_profit |-> R(210) ]
Snapshots ==
    { [positions |-> <<>>, checkpoint |-> NoCheckpoint, trades |-> <<>>],
      [positions |-> <<StorePosition("BTCINR", R(30), R(90), R(85), R(99))>>,
       checkpoint |-> StoreCheckpoint(7, R(120000), Zero, 0, TRUE),
       trades |-> <<SnapshotTrade>>] }

InitStore ==
    /\ venue = {}
    /\ store \in {StoreInit, JsonStoreInit}
    /\ lt = LiveTraderInit(LiveConfig(5))
    /\ RiskIdle
    /\ StrategyIdle

\* LiveOrderExecutor.execute_buy, paper trade, no risk manager
StoreExecuteBuy ==
    \E b \in StoreBuys :
        /\ store' = execute_buy_store(store, b.symbol, b.quantity, b.price,
                                      b.stop_loss, b.take_profit)
        /\ call' = [op |-> "execute_buy", symbol |-> b.symbol, ok |-> TRUE]
        /\ UNCHANGED <<rm, ret, lt, strategyVars, venue>>

\* LiveOrderExecutor.execute_sell, paper trade, no risk manager
StoreExecuteSell ==
    \E symbol \in DataNames :
        /\ get_position(store, symbol) # NoPosition
        /\ Len(store.trades) < MaxStoreTrades
        /\ store' = execute_sell_store(store, symbol, LastPrice[symbol], "Strategy Signal")
        /\ call' = [op |-> "execute_sell", symbol |-> symbol, ok |-> TRUE]
        /\ UNCHANGED <<rm, ret, lt, strategyVars, venue>>

\* state_manager.close_position called on the manager
StoreClosePosition ==
    \E symbol \in DataNames :
        /\ Len(store.trades) < MaxStoreTrades
        /\ store' = close_position(store, symbol, LastPrice[symbol], Zero, Zero, Zero, "")
        /\ call' = [op |-> "close_position", symbol |-> symbol,
                    ok |-> get_position(store, symbol) # NoPosition]
        /\ UNCHANGED <<rm, ret, lt, strategyVars, venue>>

\* LiveTrader._sync_position for a data feed whose backtrader position is long
StoreSyncPosition ==
    \E symbol \in DataNames :
        /\ store' = sync_position(lt, store, symbol, BtFills[symbol], LastPrice[symbol])
        /\ call' = [op |-> "sync_position", symbol |-> symbol, ok |-> TRUE]
        /\ UNCHANGED <<rm, ret, lt, strategyVars, venue>>

\* StateManager.save_checkpoint
StoreSaveCheckpoint ==
    \E checkpoint \in StoreCheckpoints :
        /\ IF IsJson(store) THEN TRUE ELSE Len(store.checkpoints) < MaxCheckpoints
        /\ store' = manager_save_checkpoint(store, checkpoint)
        /\ call' = [op |-> "save_checkpoint", checkpoint |-> checkpoint, ok |-> TRUE]
        /\ UNCHANGED <<rm, ret, lt, strategyVars, venue>>

\* StateManager.import_json
StoreImportJson ==
    \E snapshot \in Snapshots :
        /\ store' = manager_import_json(store, snapshot)
        /\ call' = [op |-> "import_json", snapshot |-> snapshot, ok |-> TRUE]
        /\ UNCHANGED <<rm, ret, lt, strategyVars, venue>>

NextStore ==
    \/ StoreExecuteBuy
    \/ StoreExecuteSell
    \/ StoreClosePosition
    \/ StoreSyncPosition
    \/ StoreSaveCheckpoint
    \/ StoreImportJson

SpecStore == InitStore /\ [][NextStore]_vars

----------------------------------------------------------------------------
(* SpecRegime: the VolatilityRegimeIndicator fed one ATR value per bar.     *)
(* call holds the ATR line so far, ret the lines it set on the last bar.    *)

\* the values of the ATR line
AtrValues == {Zero, R(1), R(2), R(3), R(5)}

InitRegime ==
    /\ call = [op |-> "indicator", atrs |-> <<>>]
    /\ ret = [regime |-> 1, regime_score |-> One]
    /\ rm = RiskManagerInit(InitialEquity, DefaultLimits)
    /\ StrategyIdle
    /\ LiveIdle

\* VolatilityRegimeIndicator.next on a new bar
IndicatorNext ==
    /\ Len(call.atrs) <= Lookback
    /\ \E atr \in AtrValues :
           /\ call' = [call EXCEPT !.atrs = Append(call.atrs, atr)]
           /\ ret' = VolatilityRegimeIndicator_next(DefaultParams, Lookback,
                                                    Append(call.atrs, atr))
    /\ UNCHANGED <<rm, strategyVars, liveVars>>

NextRegime == IndicatorNext

SpecRegime == InitRegime /\ [][NextRegime]_vars

----------------------------------------------------------------------------
(* SpecExecutor: a LiveOrderExecutor in live mode (paper_trade False) with  *)
(* a state manager, with or without a risk manager.  A request is taken in  *)
(* the steps the code takes: the risk checks, the call of the exchange, and *)
(* the bookkeeping after its answer; the process can die between any two.   *)
(* call is the request in progress, ret what the last request returned.     *)

\* the buys the executor is asked for
ExecutorBuys ==
    StoreBuys \cup
    { [symbol |-> "ETHINR", quantity |-> R(10), price |-> R(200),
       stop_loss |-> R(190), take_profit |-> R(220)] }

ExecutorIdle(risk_manager) ==
    [op |-> "none", pc |-> "idle", risk_manager |-> risk_manager]

InitExecutor ==
    /\ store = StoreInit
    /\ lt = LiveTraderInit(LiveConfig(5))
    /\ venue = {}
    /\ rm = RiskManagerInit(InitialEquity, DefaultLimits)
    /\ call \in {ExecutorIdle(TRUE), ExecutorIdle(FALSE)}
    /\ ret = "none"
    /\ StrategyIdle

\* execute_buy up to the call of the exchange: the risk management checks
\* of an executor that has a risk manager end the request
LiveExecuteBuy ==
    \E order \in ExecutorBuys :
        /\ call.pc = "idle"
        /\ call' = [ op |-> "execute_buy", order |-> order,
                     pc |-> IF call.risk_manager THEN "idle" ELSE "venue",
                     risk_manager |-> call.risk_manager ]
        /\ ret' = IF call.risk_manager THEN execute_buy(rm) ELSE ret
        /\ UNCHANGED <<rm, store, lt, venue, strategyVars>>

\* execute_sell up to the call of the exchange
LiveExecuteSell ==
    \E symbol \in DataNames :
        /\ call.pc = "idle"
        /\ rm.daily_stats.trades_count < MaxTrades
        /\ call' = [ op |-> "execute_sell",
                     order |-> [symbol |-> symbol, price |-> LastPrice[symbol]],
                     pc |-> "venue", risk_manager |-> call.risk_manager ]
        /\ UNCHANGED <<rm, ret, store, lt, venue, strategyVars>>

\* self.executor.execute_buy / execute_sell: the exchange accepts the order
\* and answers
VenueAccepts ==
    /\ call.pc = "venue"
    /\ venue' = venue \cup {<<call.op, call.order.symbol>>}
    /\ call' = [call EXCEPT !.pc = "confirmed"]
    /\ UNCHANGED <<rm, ret, store, lt, strategyVars>>

\* the exchange answers nothing, or the call raises: the rest of the request
VenueFails ==
    \E response \in VenueResponses \ {"response"} :
        /\ call.pc = "venue"
        /\ \E x \in { IF call.op = "execute_buy"
                      THEN execute_buy_live(store, rm, call.risk_manager, call.order, response)
                      ELSE execute_sell_live(store, rm, call.risk_manager, call.order, response) } :
               /\ store' = x.store
               /\ rm' = x.rm
               /\ ret' = x.ret
        /\ call' = [call EXCEPT !.pc = "idle"]
        /\ UNCHANGED <<lt, venue, strategyVars>>

\* "if response:" the bookkeeping of an accepted order
LiveRecord ==
    /\ call.pc = "confirmed"
    /\ \E x \in { IF call.op = "execute_buy"
                  THEN execute_buy_live(store, rm, call.risk_manager, call.order, "response")
                  ELSE execute_sell_live(store, rm, call.risk_manager, call.order, "response") } :
           /\ store' = x.store
           /\ rm' = x.rm
           /\ ret' = x.ret
    /\ call' = [call EXCEPT !.pc = "idle"]
    /\ UNCHANGED <<lt, venue, strategyVars>>

\* the process dies; the store and the exchange keep what they have
ExecutorCrash ==
    /\ call.pc # "dead"
    /\ call' = [call EXCEPT !.pc = "dead"]
    /\ UNCHANGED <<rm, ret, store, lt, venue, strategyVars>>

NextExecutor ==
    \/ LiveExecuteBuy
    \/ LiveExecuteSell
    \/ VenueAccepts
    \/ VenueFails
    \/ LiveRecord
    \/ ExecutorCrash

SpecExecutor == InitExecutor /\ [][NextExecutor]_vars


----------------------------------------------------------------------------
(* SpecSqlite: a SqliteStateManager with auto_backup whose statements may   *)
(* raise (a locked or unwritable database).  call records the last request, *)
(* what it returned and what it wrote to the JSON backup.                   *)

InitSqlite ==
    /\ store = StoreInit
    /\ lt = LiveTraderInit(LiveConfig(5))
    /\ venue = {}
    /\ RiskIdle
    /\ StrategyIdle

\* SqliteStateManager.save_position, the statement executing or raising
SqliteSavePosition ==
    \E b \in ExecutorBuys, write \in SqliteWrites :
        /\ \E x \in { sqlite_save_position(store,
                          StorePosition(b.symbol, b.quantity, b.price, b.stop_loss,
                                        b.take_profit), write) } :
               /\ store' = x.db
               /\ call' = [ op |-> "save_position", symbol |-> b.symbol,
                            write |-> write, ok |-> x.ret, backup |-> x.backup ]
        /\ UNCHANGED <<rm, ret, lt, strategyVars, venue>>

\* SqliteStateManager.save_checkpoint, the statement executing or raising
SqliteSaveCheckpoint ==
    \E checkpoint \in StoreCheckpoints, write \in SqliteWrites :
        /\ write = "ok" => Len(store.checkpoints) < MaxCheckpoints
        /\ \E x \in { sqlite_save_checkpoint(store, checkpoint, write) } :
               /\ store' = x.db
               /\ call' = [ op |-> "save_checkpoint", checkpoint |-> checkpoint,
                            write |-> write, ok |-> x.ret, backup |-> x.backup ]
        /\ UNCHANGED <<rm, ret, lt, strategyVars, venue>>

NextSqlite ==
    \/ SqliteSavePosition
    \/ SqliteSaveCheckpoint

SpecSqlite == InitSqlite /\ [][NextSqlite]_vars


----------------------------------------------------------------------------
(* SpecSizing: CoinDCXStrategy.get_position_size as a function of its       *)
(* inputs.  Init draws the broker value, the loss streak, the bar of the    *)
(* feed to enter, the regime score and whether the other feed holds a       *)
(* position with a wide stop; the one action computes the size.             *)

\* a strategy holding 200 BTCINR entered at 100 with its stop at 60
HoldingWideStop(s) ==
    [s EXCEPT !.entry_prices  = DictSet(s.entry_prices, "BTCINR", R(100)),
              !.stop_prices   = DictSet(s.stop_prices, "BTCINR", R(60)),
              !.target_prices = DictSet(s.target_prices, "BTCINR", R(180)),
              !.trailing_active = DictSet(s.trailing_active, "BTCINR", FALSE)]

InitSizing ==
    /\ \E value \in {R(100000), R(90000), R(80000)},
          atr \in {1, 2, 5},
          holding \in BOOLEAN,
          consecutive_losses \in {0, DefaultParams.consecutive_loss_limit} :
           /\ st = LET s == [StrategyInit(DefaultParams, InitialEquity)
                                 EXCEPT !.consecutive_losses = consecutive_losses]
                   IN  IF holding THEN HoldingWideStop(s) ELSE s
           /\ mkt = [MarketInit(value) EXCEPT
                        !.position["BTCINR"] = IF holding THEN R(200) ELSE Zero,
                        !.bar["BTCINR"] = Bar(100, 100, 16, 16, 99, 97, 35, 102),
                        !.bar["ETHINR"] = Bar(100, 100, atr, atr, 99, 97, 35, 102),
                        !.enough_data = TRUE]
    /\ \E regime_score \in {<<1, 2>>, One, <<3, 2>>} :
           call = [op |-> "get_position_size", regime_score |-> regime_score]
    /\ out = NoReport
    /\ rm = RiskManagerInit(InitialEquity, DefaultLimits)
    /\ ret = Zero
    /\ LiveIdle

\* get_position_size(data, regime_score) for the feed ETHINR
SizeEntry ==
    /\ out = NoReport
    /\ out' = [NoReport EXCEPT !.position_value["ETHINR"] =
                   get_position_size(st, mkt, "ETHINR", call.regime_score)]
    /\ UNCHANGED <<st, mkt, rm, call, ret, liveVars>>

NextSizing == SizeEntry

SpecSizing == InitSizing /\ [][NextSizing]_vars


----------------------------------------------------------------------------
(* SpecJsonFile: a JsonFileStateManager under save_position,                *)
(* save_checkpoint and delete_position of one client thread.  The store     *)
(* carries its _lock, a threading.Lock (not re-entrant), and the state last *)
(* written to the file; a request is taken up to its call of _save, which   *)
(* waits for the lock.  call is the request in progress, ret what the last  *)
(* one returned.                                                            *)

\* JsonFileStateManager.__init__ and initialize() without a state file
JsonFileInit ==
    [ positions |-> <<>>, checkpoint |-> NoCheckpoint, trades |-> <<>>,
      lock |-> "free", file |-> [positions |-> <<>>, checkpoint |-> NoCheckpoint] ]

InitJsonFile ==
    /\ store = JsonFileInit
    /\ lt = LiveTraderInit(LiveConfig(5))
    /\ venue = {}
    /\ rm = RiskManagerInit(InitialEquity, DefaultLimits)
    /\ call = [op |-> "none", pc |-> "idle"]
    /\ ret = "none"
    /\ StrategyIdle

\* save_position up to _save: the dictionary is written under the lock and
\* the lock released at the end of the with block
JsonSavePosition ==
    \E b \in ExecutorBuys :
        /\ call.pc = "idle"
        /\ store.lock = "free"
        /\ store' = save_position(store, StorePosition(b.symbol, b.quantity, b.price,
                                                       b.stop_loss, b.take_profit))
        /\ call' = [op |-> "save_position", symbol |-> b.symbol, pc |-> "_save"]
        /\ UNCHANGED <<rm, ret, lt, strategyVars, venue>>

\* save_checkpoint up to _save, in the same way
JsonSaveCheckpoint ==
    \E checkpoint \in StoreCheckpoints :
        /\ call.pc = "idle"
        /\ store.lock = "free"
        /\ store' = json_save_checkpoint(store, checkpoint)
        /\ call' = [op |-> "save_checkpoint", symbol |-> "", pc |-> "_save"]
        /\ UNCHANGED <<rm, ret, lt, strategyVars, venue>>

\* delete_position up to _save or to "return False": the lock is taken; for
\* a stored symbol the entry is deleted and _save called inside the with
\* block, the lock still held
JsonDeletePosition ==
    \E symbol \in DataNames :
        /\ call.pc = "idle"
        /\ store.lock = "free"
        /\ IF symbol \in DOMAIN store.positions
           THEN /\ store' = [store EXCEPT !.positions = DictDel(store.positions, symbol),
                                          !.lock = "held"]
                /\ call' = [op |-> "delete_position", symbol |-> symbol, pc |-> "_save"]
                /\ UNCHANGED ret
           ELSE /\ store' = store
                /\ call' = [op |-> "delete_position", symbol |-> symbol, pc |-> "idle"]
                /\ ret' = "False"
        /\ UNCHANGED <<rm, lt, strategyVars, venue>>

\* _save, once "with self._lock" has the lock: the state is written to the
\* file and the lock released; the request returns True, and the with block
\* of delete_position ends
JsonSave ==
    /\ call.pc = "_save"
    /\ store.lock = "free"
    /\ store' = [store EXCEPT !.file = [positions |-> store.positions,
                                        checkpoint |-> store.checkpoint],
                              !.lock = "free"]
    /\ call' = [call EXCEPT !.pc = "idle"]
    /\ ret' = "True"
    /\ UNCHANGED <<rm, lt, strategyVars, venue>>

NextJsonFile ==
    \/ JsonSavePosition
    \/ JsonSaveCheckpoint
    \/ JsonDeletePosition
    \/ JsonSave

SpecJsonFile == InitJsonFile /\ [][NextJsonFile]_vars


----------------------------------------------------------------------------
(* Claims about the RiskManager                                             *)

\* the drawdown as the claims define it
ClaimDrawdown == RDiv(RSub(rm.peak_equity, rm.equity), rm.peak_equity)

\* C1: can_trade() returns BLOCK in every state whose drawdown
\* (peak_equity - equity) / peak_equity is at or above drawdown_halt, whatever
\* the loss streak, the daily statistics, the positions and the heat are.
C1_HaltBlocks ==
    (rm.peak_equity # Zero /\ RGe(ClaimDrawdown, rm.limits.drawdown_halt))
        => can_trade(rm) = BLOCK

\* a halted state in which no other test of can_trade would block or reduce
C1_Witness ==
    /\ RGe(ClaimDrawdown, rm.limits.drawdown_halt)
    /\ rm.consecutive_losses = 0
    /\ rm.daily_stats.trades_count = 0
    /\ daily_return(rm.daily_stats) = Zero
    /\ DOMAIN rm.positions = {}
    /\ can_trade(rm) = BLOCK

\* C2: in every sequence of sized openings and removals the portfolio heat is
\* at most max_portfolio_heat after every add_position.
C2_HeatCeiling ==
    call.op = "add_position"
        => RLe(portfolio_heat(rm), rm.limits.max_portfolio_heat)

\* the five BLOCK conditions and the two REDUCE conditions, as the claim lists them
ClaimDailyBreach ==
    \/ rm.daily_stats.trades_count >= rm.limits.max_daily_trades
    \/ /\ RLt(daily_return(rm.daily_stats), Zero)
       /\ RGe(RNeg(daily_return(rm.daily_stats)), rm.limits.max_daily_loss_pct)
ClaimAnyBlock ==
    \/ RGe(ClaimDrawdown, rm.limits.drawdown_halt)
    \/ rm.consecutive_losses >= rm.limits.max_consecutive_losses
    \/ ClaimDailyBreach
    \/ position_count(rm) >= rm.limits.max_positions
    \/ RGe(portfolio_heat(rm), rm.limits.max_portfolio_heat)
ClaimAnyReduce ==
    \/ RGe(ClaimDrawdown, rm.limits.drawdown_warning)
    \/ rm.consecutive_losses >= rm.limits.consecutive_loss_threshold

\* C3: can_trade() is BLOCK when any of the five block conditions holds, else
\* REDUCE when drawdown >= warning or the loss streak >= its threshold, else
\* ALLOW; REDUCE or ALLOW is never returned while a block condition holds.
C3_OrderedDecision ==
    can_trade(rm) = IF ClaimAnyBlock THEN BLOCK
                    ELSE IF ClaimAnyReduce THEN REDUCE
                    ELSE ALLOW

\* blocked by the heat ceiling alone, while a REDUCE condition holds too
C3_Witness ==
    /\ ~RGe(ClaimDrawdown, rm.limits.drawdown_halt)
    /\ rm.consecutive_losses < rm.limits.max_consecutive_losses
    /\ ~ClaimDailyBreach
    /\ position_count(rm) < rm.limits.max_positions
    /\ RGe(portfolio_heat(rm), rm.limits.max_portfolio_heat)
    /\ ClaimAnyReduce
    /\ can_trade(rm) = BLOCK

IsSizing == call.op = "calculate_position_size"

\* the instance of the sizing example
ExampleCall ==
    [op |-> "calculate_position_size", price |-> R(50000),
     stop_distance |-> R(2000), regime_score |-> One, base_risk_pct |-> NoneR]
ExampleState ==
    /\ rm.limits.max_risk_per_trade = <<1, 50>>
    /\ rm.limits.max_position_pct = <<3, 10>>
    /\ rm.equity = R(100000)
    /\ rm.peak_equity = R(100000)
    /\ DOMAIN rm.positions = {}
    /\ can_trade(rm) # BLOCK

\* C4: the value returned by calculate_position_size lies between 0 and
\* equity * max_position_pct; with equity 100000, max_risk_per_trade 0.02,
\* max_position_pct 0.30, price 50000, stop_distance 2000, regime_score 1, no
\* open position, no drawdown (and trading not blocked) it is exactly 30000.
C4_SizeBounds ==
    IsSizing =>
        /\ RLe(Zero, ret)
        /\ RLe(ret, RMul(rm.equity, rm.limits.max_position_pct))
        /\ (call = ExampleCall /\ ExampleState) => ret = R(30000)

C4_Witness == IsSizing /\ call = ExampleCall /\ ExampleState /\ ret = R(30000)

\* C5: calculate_position_size returns 0 when stop_distance <= 0, or
\* price <= 0, or can_trade() is BLOCK, and leaves the RiskManager's state
\* (equity, peak, positions, daily statistics, counters) unchanged.
C5_ZeroAndUnchanged ==
    [][ (/\ call'.op = "calculate_position_size"
         /\ \/ RLe(call'.stop_distance, Zero)
            \/ RLe(call'.price, Zero)
            \/ can_trade(rm) = BLOCK)
        => (ret' = Zero /\ rm' = rm) ]_vars

\* a call with a valid price and stop distance that was refused because of BLOCK
C5_Witness ==
    /\ IsSizing
    /\ RGt(call.price, Zero)
    /\ RGt(call.stop_distance, Zero)
    /\ can_trade(rm) = BLOCK
    /\ ret = Zero

\* the state of the multiplier example
C6_State ==
    /\ rm.consecutive_losses = 3
    /\ rm.limits.consecutive_loss_threshold = 3
    /\ rm.limits.consecutive_loss_reduction = <<1, 4>>
    /\ rm.limits.drawdown_warning = <<1, 10>>
    /\ rm.limits.drawdown_critical = <<3, 20>>
    /\ rm.peak_equity # Zero
    /\ ClaimDrawdown = <<3, 20>>

\* C6 (as claimed): in that state get_size_multiplier() returns 0.375.
C6_Example == C6_State => get_size_multiplier(rm) = <<3, 8>>

\* C6 (amended): in that state the critical tier applies (drawdown >=
\* drawdown_critical) and get_size_multiplier() returns
\* max(0.25, 0.25 * 0.75) = 0.25.
C6_Amended == C6_State => get_size_multiplier(rm) = <<1, 4>>

C6_Witness == C6_State /\ get_size_multiplier(rm) = <<1, 4>>

\* the two factors of the multiplier, as the claim defines them
ClaimD ==
    IF RGe(ClaimDrawdown, rm.limits.drawdown_critical) THEN <<1, 4>>
    ELSE IF RGe(ClaimDrawdown, rm.limits.drawdown_warning) THEN <<1, 2>>
    ELSE One
ClaimL ==
    IF rm.consecutive_losses >= rm.limits.consecutive_loss_threshold
    THEN RSub(One, rm.limits.consecutive_loss_reduction)
    ELSE One

\* C7: get_size_multiplier() = max(0.25, d * l); with a reduction in [0, 1]
\* the result lies in [0.25, 1].
C7_Multiplier ==
    /\ get_size_multiplier(rm) = RMax(<<1, 4>>, RMul(ClaimD, ClaimL))
    /\ (RLe(Zero, rm.limits.consecutive_loss_reduction)
        /\ RLe(rm.limits.consecutive_loss_reduction, One))
          => (RLe(<<1, 4>>, get_size_multiplier(rm))
              /\ RLe(get_size_multiplier(rm), One))

\* critical drawdown together with a loss streak: d * l = 0.1875 is floored
C7_Witness ==
    /\ ClaimD = <<1, 4>>
    /\ ClaimL = <<3, 4>>
    /\ get_size_multiplier(rm) = <<1, 4>>

----------------------------------------------------------------------------
(* Claims about CoinDCXStrategy                                             *)

\* armed on this step or before it
ArmedAfter(d) == d \in DOMAIN st'.trailing_active /\ st'.trailing_active[d]

\* C8: while a long position is held, from the bar that arms the trailing
\* stop onwards, no step lowers stop_prices[symbol], whatever closes and ATR
\* values arrive.
C8_StopNeverLowered ==
    [][ \A d \in DataNames :
          (/\ RGt(mkt.position[d], Zero)
           /\ RGt(mkt'.position[d], Zero)
           /\ d \in DOMAIN st.stop_prices
           /\ ArmedAfter(d))
          => (d \in DOMAIN st'.stop_prices
              /\ RGe(st'.stop_prices[d], st.stop_prices[d])) ]_vars

\* an armed stop of 100 kept on a bar whose candidate 101 - 1.5 * 2 = 98 is lower
C8_Witness ==
    /\ RGt(mkt.position["BTCINR"], Zero)
    /\ ~st.pending_close["BTCINR"]
    /\ st.orders["BTCINR"] = "none"
    /\ "BTCINR" \in DOMAIN st.trailing_active
    /\ st.trailing_active["BTCINR"]
    /\ mkt.bar["BTCINR"] = RetraceBar
    /\ RGt(st.stop_prices["BTCINR"],
           RSub(RetraceBar.close, RMul(RetraceBar.atr, st.p.trailing_atr_multiple)))

\* a held position of the example: entered at `entry`, stop stored at `stop`,
\* nothing pending
C9_Held(entry, stop) ==
    /\ mkt.enough_data
    /\ RGt(mkt.position["BTCINR"], Zero)
    /\ st.orders["BTCINR"] = "none"
    /\ ~st.pending_close["BTCINR"]
    /\ "BTCINR" \in DOMAIN st.entry_prices
    /\ st.entry_prices["BTCINR"] = R(entry)
    /\ DictGet(st.stop_prices, "BTCINR", Zero) = R(stop)
    /\ st.p.trailing_atr_multiple = <<3, 2>>
    /\ RGe(RDiv(RSub(R(103), R(entry)), R(2)), st.p.trailing_activation)

\* next() is called on a bar of the example
C9_Bar(close) ==
    /\ StrategyNext
    /\ mkt'.bar["BTCINR"].close = R(close)
    /\ mkt'.bar["BTCINR"].atr = R(2)

\* C9: entry 100, stop 95, trailing multiple 1.5, ATR 2.  The bar closing at
\* 103 moves the stored stop to 100; the next bar closing at 101 leaves it at
\* 100; the position is stopped out on neither bar.
C9_TrailingExample ==
    [][ /\ (C9_Held(100, 95) /\ C9_Bar(103))
            => (st'.stop_prices["BTCINR"] = R(100) /\ out'.exit["BTCINR"] # "stop")
        /\ (C9_Held(100, 100) /\ mkt.bar["BTCINR"].close = R(103) /\ C9_Bar(101))
            => (st'.stop_prices["BTCINR"] = R(100) /\ out'.exit["BTCINR"] # "stop")
      ]_vars

\* after the two bars of the example
C9_Witness ==
    /\ RGt(mkt.position["BTCINR"], Zero)
    /\ "BTCINR" \in DOMAIN st.entry_prices
    /\ st.entry_prices["BTCINR"] = R(100)
    /\ st.stop_prices["BTCINR"] = R(100)
    /\ mkt.prev_close["BTCINR"] = R(103)
    /\ mkt.bar["BTCINR"].close = R(101)
    /\ mkt.bar["BTCINR"].atr = R(2)
    /\ ~st.pending_close["BTCINR"]
    /\ out.exit["BTCINR"] = "none"

----------------------------------------------------------------------------
(* Claims about the LiveTrader and the StateManager                         *)

\* C10: when a process that died inside a trading cycle is started again and
\* a checkpoint exists, the recovered cycle counter, equity, loss streak and
\* number of open positions registered with the RiskManager are those of the
\* last committed checkpoint.
C10_RecoveryEqualsCheckpoint ==
    [][ (lt.pc = "crashed" /\ lt'.pc = "idle" /\ load_checkpoint(store) # NoCheckpoint)
        => /\ lt'.cycle_count = load_checkpoint(store).cycle_count
           /\ rm'.equity = load_checkpoint(store).portfolio_value
           /\ rm'.consecutive_losses = load_checkpoint(store).consecutive_losses
           /\ Cardinality(DOMAIN rm'.positions) = load_checkpoint(store).open_positions
      ]_vars

\* C11: a close request that succeeds (execute_sell or close_position
\* returning True) leaves the stored position closed, and it adds exactly one
\* TradeRecord when the position was open and none when the position was
\* already closed.
C11_CloseOnce ==
    [][ (call'.op \in {"execute_sell", "close_position"} /\ call'.ok)
        => /\ get_position(store', call'.symbol).status = "closed"
           /\ Len(store'.trades) = Len(store.trades)
                  + (IF get_position(store, call'.symbol).status = "open" THEN 1 ELSE 0)
      ]_vars

----------------------------------------------------------------------------
(* Further claims about CoinDCXStrategy                                     *)

\* C12: while pending_close[symbol] is set, a call of next issues no close
\* order for that symbol, whatever the bar; the marker is cleared only by
\* the notification of the closed trade.
C12_NoSecondClose ==
    [][ \A d \in DataNames :
            st.pending_close[d]
            => /\ StrategyNext => (out'.exit[d] = "none"
                                   /\ mkt'.sell_order[d] = mkt.sell_order[d])
               /\ ~st'.pending_close[d] => (mkt.sell_order[d] /\ mkt'.position[d] = Zero)
      ]_vars

\* next has run on a bar whose exit conditions hold for a position with a
\* pending close, and has issued nothing
C12_Witness ==
    \E d \in DataNames :
        /\ st.pending_close[d]
        /\ mkt.position[d] # Zero
        /\ d \in DOMAIN st.entry_prices
        /\ out.exit[d] = "none"
        /\ out.signal[d] = "FLAT"
        /\ exit_condition(st, mkt, d) # "none"

\* the four exit conditions of a held position on the current bar
ClaimStopHit(s, m, d) ==
    d \in DOMAIN s.stop_prices /\ RLe(m.bar[d].close, s.stop_prices[d])
ClaimTargetHit(s, m, d) ==
    d \in DOMAIN s.target_prices /\ RGe(m.bar[d].high, s.target_prices[d])
ClaimExtreme(s, m, d) ==
    RGt(RDiv(m.bar[d].atr, m.bar[d].atr_mean), s.p.extreme_threshold)
ClaimTrendBroken(s, m, d) ==
    RLt(m.bar[d].close, m.bar[d].ema_slow) /\ RGe(m.bar[d].close, s.entry_prices[d])

\* C13: when next closes a position the reported reason is one of stop,
\* target, regime, trend, and it is the first of them, in that order, whose
\* condition holds on the bar.
C13_ExitPriority ==
    [][ StrategyNext =>
          \A d \in DataNames :
              out'.exit[d] # "none"
              => out'.exit[d] =
                   IF ClaimStopHit(st', mkt', d) THEN "stop"
                   ELSE IF ClaimTargetHit(st', mkt', d) THEN "target"
                   ELSE IF ClaimExtreme(st', mkt', d) THEN "regime"
                   ELSE IF ClaimTrendBroken(st', mkt', d) THEN "trend"
                   ELSE "no condition holds"
      ]_vars

\* a bar on which the stop, the target and the Extreme regime all hold, and
\* the stop is what was reported
C13_Witness ==
    \E d \in DataNames :
        /\ out.exit[d] = "stop"
        /\ st.pending_close[d]
        /\ ClaimStopHit(st, mkt, d)
        /\ ClaimTargetHit(st, mkt, d)
        /\ ClaimExtreme(st, mkt, d)

\* the entry conditions of a data feed on the bar next is called with:
\* s is the strategy before the call, m the market with the new bar
ClaimDrawdownOf(s, m) ==
    LET peak == RMax(s.peak_value, m.value)
    IN  IF peak = Zero THEN Zero ELSE RDiv(RSub(peak, m.value), peak)
ClaimBreakoutLevel(s, m, d) ==
    RSub(m.bar[d].highest_prev, RMul(m.bar[d].atr, s.p.breakout_atr_multiple))
ClaimFreshCross(s, m, d) ==
    /\ RLe(m.prev_close[d], ClaimBreakoutLevel(s, m, d))
    /\ RGt(m.bar[d].close, ClaimBreakoutLevel(s, m, d))
ClaimEntryAllowed(s, m, d) ==
    /\ m.position[d] = Zero
    /\ s.orders[d] = "none"
    /\ Cardinality({x \in DataNames : RGt(m.position[x], Zero)}) < s.p.max_positions
    /\ RLt(ClaimDrawdownOf(s, m), s.p.max_drawdown)
    /\ \/ m.bar[d].atr_mean = Zero
       \/ RLe(RDiv(m.bar[d].atr, m.bar[d].atr_mean), s.p.expansion_threshold)
    /\ RGt(m.bar[d].ema_fast, m.bar[d].ema_slow)
    /\ RGt(m.bar[d].adx, s.p.adx_threshold)
    /\ ClaimFreshCross(s, m, d)

\* C14: next reports LONG for a data feed only if every entry condition
\* holds on that bar: no position, no pending order, fewer than max_positions
\* open, drawdown below max_drawdown (equal is too much), regime Compression
\* or Normal, ema_fast above ema_slow, ADX above adx_threshold, fresh breakout.
C14_EntryConditions ==
    [][ StrategyNext =>
          \A d \in DataNames :
              out'.signal[d] = "LONG" => ClaimEntryAllowed(st, mkt', d)
      ]_vars

\* C15: LONG is reported only on a fresh cross of the breakout level
\* L = highest[-1] - ATR * breakout_atr_multiple: the previous close at or
\* below L and the current close above L.
C15_FreshCross ==
    [][ StrategyNext =>
          \A d \in DataNames :
              out'.signal[d] = "LONG" => ClaimFreshCross(st, mkt', d)
      ]_vars

\* next has answered FLAT on a bar where every entry condition holds except
\* that the previous close was already above the level
C15_Witness ==
    \E d \in DataNames :
        /\ mkt.enough_data
        /\ out.signal[d] = "FLAT"
        /\ mkt.position[d] = Zero
        /\ st.orders[d] = "none"
        /\ \A x \in DataNames : mkt.position[x] = Zero
        /\ RLt(ClaimDrawdownOf(st, mkt), st.p.max_drawdown)
        /\ RLe(RDiv(mkt.bar[d].atr, mkt.bar[d].atr_mean), st.p.expansion_threshold)
        /\ RGt(mkt.bar[d].ema_fast, mkt.bar[d].ema_slow)
        /\ RGt(mkt.bar[d].adx, st.p.adx_threshold)
        /\ RGt(mkt.prev_close[d], ClaimBreakoutLevel(st, mkt, d))
        /\ RGt(mkt.bar[d].close, ClaimBreakoutLevel(st, mkt, d))

\* the ratio of the current ATR to the mean of the last Lookback values
ClaimAtrSum == 
    LET n == Len(call.atrs)
        F[i \in 0..Lookback] ==
            IF i = 0 THEN Zero ELSE RAdd(F[i - 1], call.atrs[n - i + 1])
    IN  F[Lookback]
ClaimAtrRatio == RDiv(RMul(call.atrs[Len(call.atrs)], R(Lookback)), ClaimAtrSum)

\* C16: the indicator answers Normal with score 1 while fewer than lookback
\* ATR values exist or when their mean is 0; otherwise Compression (1.5) for
\* ratio < compression threshold, else Extreme (0.5) for ratio > extreme
\* threshold, else Expansion (0.8) for ratio > expansion threshold, else
\* Normal (1.0).  The score is below 1 exactly for Expansion and Extreme and
\* above 1 exactly for Compression.
C16_RegimeFunction ==
    call.atrs # <<>> =>
      /\ ret =
           IF Len(call.atrs) < Lookback THEN [regime |-> 1, regime_score |-> One]
           ELSE IF ClaimAtrSum = Zero THEN [regime |-> 1, regime_score |-> One]
           ELSE IF RLt(ClaimAtrRatio, DefaultParams.compression_threshold)
                THEN [regime |-> 0, regime_score |-> <<3, 2>>]
           ELSE IF RGt(ClaimAtrRatio, DefaultParams.extreme_threshold)
                THEN [regime |-> 3, regime_score |-> <<1, 2>>]
           ELSE IF RGt(ClaimAtrRatio, DefaultParams.expansion_threshold)
                THEN [regime |-> 2, regime_score |-> <<4, 5>>]
           ELSE [regime |-> 1, regime_score |-> One]
      /\ RLt(ret.regime_score, One) <=> ret.regime \in {2, 3}
      /\ RGt(ret.regime_score, One) <=> ret.regime = 0

\* more ATR values than the lookback, and a ratio above both the expansion
\* and the extreme threshold
C16_Witness ==
    /\ Len(call.atrs) > Lookback
    /\ ClaimAtrSum # Zero
    /\ RGt(ClaimAtrRatio, DefaultParams.extreme_threshold)
    /\ ret.regime = 3

----------------------------------------------------------------------------
(* Further claims about the StateManager                                    *)

\* C17: in both implementations load_checkpoint returns None before any
\* save_checkpoint, returns the checkpoint just passed after a
\* save_checkpoint, and keeps returning it under every other call
\* (import_json aside, whose effect is the subject of C19); the SQLite
\* save_checkpoint appends one row and leaves the earlier rows as they were.
C17_LastCheckpoint ==
    [][ /\ call.op = "none" => manager_load_checkpoint(store) = NoCheckpoint
        /\ call'.op = "save_checkpoint"
           => /\ manager_load_checkpoint(store') = call'.checkpoint
              /\ ~IsJson(store)
                 => /\ Len(store'.checkpoints) = Len(store.checkpoints) + 1
                    /\ SubSeq(store'.checkpoints, 1, Len(store.checkpoints))
                           = store.checkpoints
        /\ call'.op \notin {"save_checkpoint", "import_json"}
           => manager_load_checkpoint(store') = manager_load_checkpoint(store)
      ]_vars

\* two different checkpoints were saved to the SQLite store; the second,
\* saved with paper_mode False, is the one load_checkpoint returns
C17_Witness ==
    /\ ~IsJson(store)
    /\ Len(store.checkpoints) = 2
    /\ store.checkpoints[1] # store.checkpoints[2]
    /\ call.op = "save_checkpoint"
    /\ ~call.checkpoint.paper_mode
    /\ load_checkpoint(store) = call.checkpoint

\* C18: an entry (execute_buy or a position sync) for a symbol whose stored
\* Position is open does not reach the store: the Position stays open with
\* the quantity and the entry price it had.
C18_OpenPositionKept ==
    [][ (/\ call'.op \in {"execute_buy", "sync_position"}
         /\ get_position(store, call'.symbol).status = "open")
        => /\ get_position(store', call'.symbol).status = "open"
           /\ get_position(store', call'.symbol).quantity
                  = get_position(store, call'.symbol).quantity
           /\ get_position(store', call'.symbol).entry_price
                  = get_position(store, call'.symbol).entry_price
      ]_vars

\* C19: in both implementations import_json changes only the positions: the
\* checkpoints, hence what load_checkpoint returns, and the trade history are
\* after the import what they were before it.
C19_ImportOnlyPositions ==
    [][ call'.op = "import_json"
        => /\ manager_load_checkpoint(store') = manager_load_checkpoint(store)
           /\ store'.trades = store.trades
           /\ ~IsJson(store) => store'.checkpoints = store.checkpoints
      ]_vars

----------------------------------------------------------------------------
(* Further claims about the LiveTrader                                      *)

\* C20: when a new process has finished LiveTrader.__init__, the symbols
\* registered in RiskManager.state.positions are those of the Positions that
\* are open in the store, whatever the previous session left there.
C20_RecoveredPositions ==
    [][ (lt.pc \in {"killed", "crashed", "stopped"} /\ lt'.pc = "idle")
        => DOMAIN rm'.positions = {pos.symbol : pos \in get_open_positions(store')}
      ]_vars

----------------------------------------------------------------------------
(* Claims about the LiveOrderExecutor in live mode                          *)

\* C21: whenever the process has died, every buy order the exchange has
\* accepted has its Position in the store.
C21_PositionBeforeConfirmation ==
    call.pc = "dead" =>
        \A symbol \in DataNames :
            <<"execute_buy", symbol>> \in venue => get_position(store, symbol) # NoPosition

\* C22: a step of a request in which the exchange has not accepted the order
\* (the risk checks, or the exchange answering nothing or raising) leaves the
\* store and the RiskManager as they were.
C22_FailedVenueCall ==
    [][call.pc # "confirmed" => store' = store /\ rm' = rm]_vars

\* a sell the exchange did not answer, after an earlier sell was recorded by
\* the risk manager
C22_Witness ==
    /\ call.op = "execute_sell"
    /\ call.pc = "idle"
    /\ ret = "False"
    /\ call.risk_manager
    /\ rm.daily_stats.trades_count > 0

----------------------------------------------------------------------------
(* Claims about a refused close, the stop and target levels                 *)

\* C23: when a position is held whose close order was canceled or rejected
\* (the close is marked pending and no sell order is in flight) and next runs
\* on a bar closing at or below the position's stop, next issues a close
\* order for the symbol.
C23_ExitsAfterRefusedClose ==
    [][ \A d \in DataNames :
            ( /\ st.pending_close[d]
              /\ ~mkt.sell_order[d]
              /\ mkt.position[d] # Zero
              /\ d \in DOMAIN st.stop_prices
              /\ StrategyNext
              /\ RLe(mkt'.bar[d].close, st.stop_prices[d]) )
            => mkt'.sell_order[d]
      ]_vars

----------------------------------------------------------------------------
(* Further claims about the StateManager's writes                           *)

\* C24: a save_position or save_checkpoint of the SqliteStateManager whose
\* statement raised has returned False and has written the JSON backup.
C24_BackupAfterFailedWrite ==
    (call.op \in {"save_position", "save_checkpoint"} /\ call.write = "raises")
        => (call.ok = FALSE /\ call.backup # NoBackup)

\* the stop moved in this step by the trailing ratchet: upwards, to the
\* bar's close less ATR * trailing_atr_multiple, the profit having reached
\* the activation level
ClaimRatcheted(d) ==
    LET b == mkt'.bar[d]
    IN  /\ RGt(st'.stop_prices[d], st.stop_prices[d])
        /\ st'.stop_prices[d] = RSub(b.close, RMul(b.atr, st.p.trailing_atr_multiple))
        /\ RGt(b.atr, Zero)
        /\ RGe(RDiv(RSub(b.close, st.entry_prices[d]), b.atr), st.p.trailing_activation)

\* C25: the step in which an entry order is created sets the stop to
\* close - ATR * stop_atr_multiple and the target to close + ATR *
\* target_atr_multiple; while the entry order or the position exists and
\* the position is not closed, the target stays and the stop stays or is
\* ratcheted.
C25_StopAndTargetFixed ==
    [][ \A d \in DataNames :
            /\ (mkt.buy_order[d] = Zero /\ mkt'.buy_order[d] # Zero)
               => LET b == mkt'.bar[d]
                  IN  /\ st'.stop_prices[d] = RSub(b.close, RMul(b.atr, st.p.stop_atr_multiple))
                      /\ st'.target_prices[d] = RAdd(b.close, RMul(b.atr, st.p.target_atr_multiple))
            /\ ( /\ mkt.buy_order[d] # Zero \/ mkt.position[d] # Zero
                 /\ d \in DOMAIN st.target_prices
                 /\ d \in DOMAIN st'.target_prices )
               => /\ st'.target_prices[d] = st.target_prices[d]
                  /\ st'.stop_prices[d] = st.stop_prices[d] \/ ClaimRatcheted(d)
      ]_vars

\* a held position whose stop the ratchet has moved on the current bar above
\* the entry stop, its target still the entry target
C25_Witness ==
    \E d \in DataNames :
        /\ mkt.position[d] # Zero
        /\ d \in DOMAIN st.stop_prices
        /\ st.trailing_active[d]
        /\ st.stop_prices[d] = RSub(mkt.bar[d].close,
                                    RMul(mkt.bar[d].atr, st.p.trailing_atr_multiple))
        /\ RGt(st.stop_prices[d],
               RSub(st.entry_prices[d], RMul(mkt.bar[d].atr, st.p.stop_atr_multiple)))
        /\ st.target_prices[d] = RAdd(st.entry_prices[d],
                                      RMul(mkt.bar[d].atr, st.p.target_atr_multiple))

----------------------------------------------------------------------------
(* Further claims about the LiveTrader's cycle                              *)

\* C26: the trader stops only between cycles: the step in which it stops
\* starts where no run_cycle is in progress (the cycle has ended, its
\* checkpoint saved).
C26_StopBetweenCycles ==
    [][lt'.pc = "stopped" => lt.pc = "idle"]_vars

\* C27: when a cycle has completed (run_cycle has saved its checkpoint and
\* returned), every symbol the strategy of that cycle holds has an open
\* Position in the store whose stop level is not zero.
C27_StoredStopLevel ==
    (lt.pc = "idle" /\ lt.strategy)
        => \A d \in DataNames :
               lt.bt_position[d].size # Zero
               => /\ get_position(store, d) # NoPosition
                  /\ get_position(store, d).status = "open"
                  /\ get_position(store, d).stop_loss # Zero

\* C28: every TradeRecord of the trade history is still in the trade history,
\* unchanged, after any call on the store.
C28_TradeHistoryKept ==
    [][ \A i \in 1..Len(store.trades) :
            \E j \in 1..Len(store'.trades) : store'.trades[j] = store.trades[i]
      ]_vars

----------------------------------------------------------------------------
(* Further claims about the RiskManager                                     *)

\* clamp(requested, min_risk_per_trade, max_risk_per_trade)
ClaimRiskPct(s, requested) ==
    RMax(RMin(requested, s.limits.max_risk_per_trade), s.limits.min_risk_per_trade)

\* C29: for a call of calculate_position_size that names a base_risk_pct,
\* the risk fraction applied is the requested fraction clamped to
\* [min_risk_per_trade, max_risk_per_trade].
C29_RiskFractionClamped ==
    (call.op = "calculate_position_size" /\ ~IsNone(call.base_risk_pct))
        => risk_pct_of(rm, call.base_risk_pct) = ClaimRiskPct(rm, call.base_risk_pct)

----------------------------------------------------------------------------
(* Claims about the risk accounting of a live session                       *)

\* the process is dead and is about to be started again
ClaimRestart == lt.pc \in {"killed", "crashed", "stopped"} /\ lt'.pc = "idle"

\* C31: when a cycle completes (run_cycle saves its checkpoint), the
\* RiskManager's equity is the portfolio value of that checkpoint and its
\* peak equity is not below it.
C31_EquityEveryCycle ==
    [][ (lt.pc = "sync" /\ lt'.pc = "idle")
        => /\ rm'.equity = load_checkpoint(store').portfolio_value
           /\ RGe(rm'.peak_equity, rm'.equity)
      ]_vars

\* C32: every checkpoint written records the RiskManager's consecutive-loss
\* counter of that moment, and a restart that recovers from a checkpoint
\* sets the RiskManager's counter to the checkpoint's.
C32_LossStreakSurvives ==
    [][ /\ Len(store'.checkpoints) = Len(store.checkpoints) + 1
           => load_checkpoint(store').consecutive_losses = rm.consecutive_losses
        /\ (ClaimRestart /\ load_checkpoint(store) # NoCheckpoint)
           => rm'.consecutive_losses = load_checkpoint(store).consecutive_losses
      ]_vars

\* C33: after a restart that recovers from a checkpoint the RiskManager's
\* drawdown is the drawdown the checkpoint records (there in percent).
C33_DrawdownRestored ==
    [][ (ClaimRestart /\ load_checkpoint(store) # NoCheckpoint)
        => RMul(drawdown(rm'), R(100)) = load_checkpoint(store).drawdown_pct
      ]_vars

----------------------------------------------------------------------------
(* Further claims about the sizing and the throttling                       *)

\* C34: the position value next computes with get_position_size for an
\* entry is never above equity * max_position_pct.
C34_PositionValueCapped ==
    \A d \in DataNames :
        RLe(out.position_value[d], RMul(mkt.value, st.p.max_position_pct))

\* C35: once consecutive_losses has reached consecutive_loss_threshold, a
\* step that takes it below the threshold again is one after which
\* consecutive_wins_for_reset consecutive wins stand recorded.
C35_ResetByWinStreak ==
    [][ ( /\ rm.consecutive_losses >= rm.limits.consecutive_loss_threshold
          /\ rm'.consecutive_losses < rm'.limits.consecutive_loss_threshold )
        => rm'.consecutive_wins >= rm'.limits.consecutive_wins_for_reset
      ]_vars

\* C36: a completed sell handed to execute_sell (which returns True) in a
\* session whose RiskManager holds exactly the symbols of the open Positions
\* of the store leaves it holding exactly the symbols of the open Positions.
ClaimOpenSymbols(db) == {p.symbol : p \in get_open_positions(db)}
C36_RiskPositionsMatchStore ==
    [][ ( /\ lt.pc = "run" /\ lt'.pc = "run"
          /\ \E d \in DataNames : /\ lt.bt_position[d] # NoBtPosition
                                  /\ lt'.bt_position[d] = NoBtPosition
          /\ DOMAIN rm.positions = ClaimOpenSymbols(store) )
        => DOMAIN rm'.positions = ClaimOpenSymbols(store')
      ]_vars

\* C37: when the strategy's sell completes and notify_order calls
\* execute_sell, a trade whose profit (executed price against the entry
\* price of the position) is positive sets consecutive_losses to 0, and
\* consecutive_losses grows only for a trade whose profit is not positive.
ClaimTradePnl(c) == RMul(RSub(c.price, c.position.price), c.quantity)
ClaimSellNotified ==
    /\ lt.pc = "run" /\ lt'.pc = "run"
    /\ \E d \in DataNames : /\ lt.bt_position[d] # NoBtPosition
                            /\ lt'.bt_position[d] = NoBtPosition
C37_WinRecordedOnProfit ==
    [][ ClaimSellNotified
        => IF RGt(ClaimTradePnl(call'), Zero)
           THEN rm'.consecutive_losses = 0
           ELSE rm'.consecutive_losses = rm.consecutive_losses + 1
      ]_vars

\* C38: the final checkpoint written by stop() after a completed cycle
\* records the portfolio value and the cash of that cycle's checkpoint.
C38_FinalCheckpoint ==
    [][ (lt.pc = "idle" /\ lt'.pc = "stopped" /\ lt.strategy
            /\ load_checkpoint(store) # NoCheckpoint)
        => /\ load_checkpoint(store').portfolio_value = load_checkpoint(store).portfolio_value
           /\ load_checkpoint(store').cash = load_checkpoint(store).cash
      ]_vars


----------------------------------------------------------------------------
(* Claims about the JSON state file                                         *)

\* C39: delete_position always terminates: the thread that has reached the
\* _save of its request never waits for a lock that is held, so the request
\* returns and leaves the store lock free.
C39_DeleteTerminates ==
    (call.op = "delete_position" /\ call.pc = "_save") => store.lock = "free"


\* C40: a buy handed to execute_buy of an executor with a RiskManager, when
\* can_trade() is not BLOCK and the size calculate_position_size allows for
\* the price and the stop distance is positive, returns True, leaves an open
\* Position with the given stop and target in the store and a position with
\* risk_amount = (price - stop) * quantity in the RiskManager, the quantity
\* not above the allowed size.  (The risk management checks stand before
\* the branch on paper_trade and are the same for both modes.)
ClaimSafeValue(r, order) ==
    calculate_position_size(r, order.price, RSub(order.price, order.stop_loss), One, NoneR)
C40_BuyRecorded ==
    [][ ( /\ call.pc = "idle" /\ call.risk_manager
          /\ call'.op = "execute_buy" /\ call'.pc = "idle"
          /\ can_trade(rm) # BLOCK
          /\ RGt(ClaimSafeValue(rm, call'.order), Zero) )
        => LET o == call'.order
               p == get_position(store', o.symbol)
           IN  /\ ret' = "True"
               /\ p # NoPosition
               /\ IF p # NoPosition
                  THEN /\ p.status = "open"
                       /\ p.stop_loss = o.stop_loss
                       /\ p.take_profit = o.take_profit
                       /\ RLe(RMul(p.quantity, o.price), ClaimSafeValue(rm, o))
                  ELSE FALSE
               /\ o.symbol \in DOMAIN rm'.positions
               /\ IF o.symbol \in DOMAIN rm'.positions
                  THEN rm'.positions[o.symbol].risk_amount
                           = RMul(RSub(o.price, o.stop_loss), rm'.positions[o.symbol].quantity)
                  ELSE FALSE
      ]_vars

====
